---- MODULE Spec2Model ----
(***************************************************************************)
(* Cupana: a 16-bit virtual machine.  This module models                   *)
(*   - the flat memory of src/memory.rs (struct Memory),                   *)
(*   - the CPU of src/machine.rs (struct Machine: fetch, decode, execute), *)
(*   - the memory bus of src/memory/mod.rs (struct MemoryBus) with its     *)
(*     ROM, RAM, stack and memory-mapped devices,                          *)
(*   - the devices of src/devices (console, TCP serial),                   *)
(*   - the host loop of src/cupana.rs (Cupana::run).                       *)
(* Integers are kept at their width: u16 values are taken modulo 2^16 and  *)
(* u8 values modulo 2^8.  Arithmetic that overflows a Rust integer panics  *)
(* in a build with overflow checks and wraps in a build without; the       *)
(* variable overflowChecks fixes the build for one behaviour.              *)
(***************************************************************************)
EXTENDS Integers, Sequences, FiniteSets, TLC

(***************************************************************************)
(* Address map (src/memory/mod.rs:13-26, the same values as                *)
(* src/memory.rs:3-17).                                                    *)
(***************************************************************************)
ROM_BASE == 0
ROM_SIZE == 32768
ROM_END == ROM_BASE + ROM_SIZE - 1
RAM_BASE == 32768
RAM_SIZE == 24576
RAM_END == RAM_BASE + RAM_SIZE - 1
STACK_BASE == 57344
STACK_SIZE == 4096
STACK_END == STACK_BASE + STACK_SIZE - 1
MMIO_BASE == 61440
MMIO_END == 65535

\* Index of the program counter and of the stack pointer in the register file.
PC == 14
SP == 15

\* Flag masks (enum Flag).
FlagZero == 1
FlagNegative == 2
FlagOverflow == 4
FlagInterruptEnabled == 8
FlagInterruptPending == 16
FlagHalt == 128

(***************************************************************************)
(* Fixed-width integer helpers.                                            *)
(***************************************************************************)
U8 == 256
U16 == 65536
Wrap8(x) == x % U8
Wrap16(x) == x % U16
LowByte(v) == v % U8
HighByte(v) == (v \div U8) % U8
Word(lo, hi) == hi * U8 + lo

RECURSIVE BitOp(_, _, _, _)
\* Bitwise combination of the low n bits of x and y; op names the operation.
BitOp(op, x, y, n) ==
  IF n = 0 THEN 0
  ELSE LET bx == x % 2
           by == y % 2
           bit == CASE op = "and" -> IF bx = 1 /\ by = 1 THEN 1 ELSE 0
                    [] op = "or"  -> IF bx = 1 \/ by = 1 THEN 1 ELSE 0
                    [] OTHER      -> IF bx # by THEN 1 ELSE 0
       IN bit + 2 * BitOp(op, x \div 2, y \div 2, n - 1)

RECURSIVE Pow2(_)
Pow2(n) == IF n = 0 THEN 1 ELSE 2 * Pow2(n - 1)

\* true iff every bit of mask is set in flags (Machine::get_flag for one-bit masks)
get_flag(f, mask) == BitOp("and", f, mask, 16) # 0

\* Machine::set_flag on a 16-bit flag word
set_flag(f, mask, value) ==
  IF value THEN BitOp("or", f, mask, 16)
  ELSE BitOp("and", f, (U16 - 1) - mask, 16)

(***************************************************************************)
(* struct Memory (src/memory.rs): four zero-initialised arrays that cover  *)
(* the whole 16-bit address space.  The model keeps the non-zero bytes     *)
(* only: a function from the addresses that hold a non-zero byte.          *)
(***************************************************************************)
EmptyMem == [a \in {} |-> 0]

MemGet(m, a) == IF a \in DOMAIN m THEN m[a] ELSE 0

MemSet(m, a, v) ==
  IF v = 0 THEN [x \in (DOMAIN m) \ {a} |-> m[x]]
  ELSE [x \in (DOMAIN m) \cup {a} |-> IF x = a THEN v ELSE m[x]]

RECURSIVE LoadBytes(_, _, _)
\* copy_from_slice: bytes[i] goes to address base + i - 1, for every i
LoadBytes(m, base, bytes) ==
  IF bytes = << >> THEN m
  ELSE LoadBytes(MemSet(m, base, Head(bytes)), base + 1, Tail(bytes))

\* Memory::load_rom
Memory_load_rom(m, bytes) == LoadBytes(m, ROM_BASE, bytes)

\* Memory::read_u8: every address is in one of the four arrays
Memory_read_u8(m, a) == MemGet(m, a)

\* Memory::write_u8: a write into ROM panics
Memory_write_u8(m, a, v) ==
  IF a >= ROM_BASE /\ a <= ROM_END
  THEN [ok |-> FALSE, m |-> m]
  ELSE [ok |-> TRUE, m |-> MemSet(m, a, v)]

\* Memory::read_u16: address + 1 overflows u16 at 0xFFFF
Memory_read_u16(m, a, checks) ==
  IF a + 1 >= U16 /\ checks
  THEN [ok |-> FALSE, v |-> 0]
  ELSE [ok |-> TRUE, v |-> Word(MemGet(m, a), MemGet(m, Wrap16(a + 1)))]

\* Memory::write_u16 storing the high byte at address and the low byte after it
Memory_write_u16_HighFirst(m, a, v, checks) ==
  LET w1 == Memory_write_u8(m, a, HighByte(v))
  IN IF ~w1.ok THEN w1
     ELSE IF a + 1 >= U16 /\ checks THEN [ok |-> FALSE, m |-> w1.m]
     ELSE Memory_write_u8(w1.m, Wrap16(a + 1), LowByte(v))

\* Memory::write_u16: low byte first, then the high byte at address + 1
Memory_write_u16(m, a, v, checks) ==
  LET w1 == Memory_write_u8(m, a, LowByte(v))
  IN IF ~w1.ok THEN w1
     ELSE IF a + 1 >= U16 /\ checks THEN [ok |-> FALSE, m |-> w1.m]
     ELSE Memory_write_u8(w1.m, Wrap16(a + 1), HighByte(v))

(***************************************************************************)
(* struct Machine (src/machine.rs).  A CPU value is a record               *)
(*   r  : the 16 registers (r[14] is the PC, r[15] the SP),                *)
(*   f  : the 16-bit flag word,                                            *)
(*   m  : the Memory it runs on,                                           *)
(*   st : "ok", or "panic" once the step has panicked.                     *)
(***************************************************************************)
Regs == 0..15

\* Machine::new
Machine_new ==
  [r |-> [i \in Regs |-> IF i = PC THEN ROM_BASE ELSE IF i = SP THEN STACK_BASE ELSE 0],
   f |-> 0]

\* Machine::reset
Machine_reset(c) == [c EXCEPT !.r = [i \in Regs |-> 0], !.f = 0]

\* Machine::halted of a Machine that never reports the halt
halted_Never(f) == FALSE

\* Machine::halted
halted(f) == get_flag(f, FlagHalt)

Panic(c) == [c EXCEPT !.st = "panic"]

OpcodeNames ==
  << "NOP", "HLT", "MOV", "PHR", "PLR", "ADD", "SUB", "MUL", "DIV", "MOD",
     "INC", "DEC", "AND", "OR", "XOR", "NOT", "SHL", "SHR", "CMP", "JMP",
     "JPC", "JSB", "RSB", "CLI", "SEI", "RSI" >>

\* impl From<u8> for Opcode
OpcodeFrom(value) ==
  IF value < Len(OpcodeNames) THEN OpcodeNames[value + 1] ELSE "NONE"

\* impl From<u8> for JumpMode
JumpModeFrom(value) ==
  CASE value = 0 -> "Zero"
    [] value = 1 -> "NotZero"
    [] value = 2 -> "Negative"
    [] value = 3 -> "NotNegative"
    [] value = 4 -> "Overflow"
    [] value = 5 -> "NotOverflow"
    [] OTHER -> "None"

\* extract_registers_from_byte
extract_registers_from_byte(byte) ==
  [a |-> (byte \div 16) % 16, b |-> byte % 16]

\* Machine::fetch_u8
fetch_u8(c) ==
  [c |-> [c EXCEPT !.r[PC] = Wrap16(@ + 1)],
   v |-> Memory_read_u8(c.m, c.r[PC])]

\* Machine::fetch_u16
fetch_u16(c, checks) ==
  LET rd == Memory_read_u16(c.m, c.r[PC], checks)
  IN [c |-> [c EXCEPT !.r[PC] = Wrap16(@ + 2),
                      !.st = IF rd.ok THEN @ ELSE "panic"],
      v |-> rd.v]

\* Machine::push_u16: write the word at SP, then SP += 2
push_u16_Descending(c, value, checks) ==
  LET sp == Wrap16(c.r[SP] - 2)
      w == Memory_write_u16(c.m, sp, value, checks)
  IN IF w.ok
     THEN [c EXCEPT !.m = w.m, !.r[SP] = sp]
     ELSE [c EXCEPT !.m = w.m, !.st = "panic"]

\* Machine::push_u16: write the word at SP, then SP += 2
push_u16(c, value, checks) ==
  LET w == Memory_write_u16(c.m, c.r[SP], value, checks)
  IN IF w.ok
     THEN [c EXCEPT !.m = w.m, !.r[SP] = Wrap16(@ + 2)]
     ELSE [c EXCEPT !.m = w.m, !.st = "panic"]

\* Machine::pull_u16 reading the word before it moves SP
pull_u16_ReadFirst(c, checks) ==
  LET rd == Memory_read_u16(c.m, c.r[SP], checks)
  IN [c |-> [c EXCEPT !.r[SP] = Wrap16(@ - 2), !.st = IF rd.ok THEN @ ELSE "panic"],
      v |-> rd.v]

\* Machine::pull_u16: SP -= 2, then read the word at SP
pull_u16(c, checks) ==
  LET sp == Wrap16(c.r[SP] - 2)
      rd == Memory_read_u16(c.m, sp, checks)
  IN [c |-> [c EXCEPT !.r[SP] = sp, !.st = IF rd.ok THEN @ ELSE "panic"],
      v |-> rd.v]

\* Machine::update_flags taking the sign from bit 7
update_flags_SignOfByte(f, result, overflow) ==
  set_flag(set_flag(set_flag(f, FlagZero, result = 0),
                    FlagNegative, result % U8 >= 128),
           FlagOverflow, overflow)

\* Machine::update_flags
update_flags(f, result, overflow) ==
  set_flag(set_flag(set_flag(f, FlagZero, result = 0),
                    FlagNegative, result >= 32768),
           FlagOverflow, overflow)

\* The opcodes whose operand is decoded as one register byte or one literal.
SingleOperand == {"PHR", "PLR", "INC", "DEC", "NOT", "JMP", "JSB"}
\* The opcodes without operand.
NoOperand == {"NOP", "HLT", "RSB", "CLI", "SEI", "RSI"}

\* Machine::step, lines 203-260: fetch the opcode byte and the operands.
Decode(c0, checks) ==
  LET f0 == fetch_u8(c0)
      byte == f0.v
      opcode == OpcodeFrom(byte \div 8)
      b == (byte \div 4) % 2
      mode == byte % 4
      base == [c |-> f0.c, byte |-> byte, opcode |-> opcode, b |-> b,
               mode |-> mode, dest |-> 0, orig |-> 0,
               literal_u16 |-> 0, literal_u8 |-> 0]
      OneByte == LET f1 == fetch_u8(f0.c)
                 IN [base EXCEPT !.c = f1.c, !.dest = f1.v]
      Pair == LET f1 == fetch_u8(f0.c)
                  rr == extract_registers_from_byte(f1.v)
              IN [base EXCEPT !.c = f1.c, !.dest = rr.a, !.orig = rr.b]
  IN IF opcode \in SingleOperand THEN
       CASE mode = 0 -> OneByte
         [] mode = 1 /\ b = 0 ->
              LET f1 == fetch_u16(f0.c, checks)
              IN [base EXCEPT !.c = f1.c, !.literal_u16 = f1.v]
         [] mode = 1 /\ b = 1 ->
              LET f1 == fetch_u8(f0.c)
              IN [base EXCEPT !.c = f1.c, !.literal_u8 = f1.v]
         [] OTHER -> [base EXCEPT !.c = Panic(f0.c)]
     ELSE IF opcode \in NoOperand THEN base
     ELSE
       CASE mode = 1 /\ b = 0 ->
              LET f1 == fetch_u8(f0.c)
                  f2 == fetch_u16(f1.c, checks)
              IN [base EXCEPT !.c = f2.c, !.dest = f1.v, !.literal_u16 = f2.v]
         [] mode = 1 /\ b = 1 ->
              LET f1 == fetch_u8(f0.c)
                  f2 == fetch_u8(f1.c)
              IN [base EXCEPT !.c = f2.c, !.dest = f1.v, !.literal_u8 = f2.v]
         [] mode = 3 /\ b = 1 -> [base EXCEPT !.c = Panic(f0.c)]
         [] OTHER -> Pair

\* The operands of a two-operand ALU instruction (value_dest, value_orig or the
\* literal), as the arms of Opcode::ADD .. Opcode::CMP select them.
AluOperands(d) ==
  LET r == d.c.r
      none == [ok |-> FALSE, vd |-> 0, vo |-> 0]
  IN CASE d.mode = 0 /\ d.b = 0 ->
            [ok |-> TRUE, vd |-> r[d.dest], vo |-> r[d.orig]]
       [] d.mode = 0 /\ d.b = 1 ->
            [ok |-> TRUE, vd |-> r[d.dest] % U8, vo |-> r[d.orig] % U8]
       [] d.mode = 1 /\ d.b = 0 ->
            IF d.dest \in Regs
            THEN [ok |-> TRUE, vd |-> r[d.dest], vo |-> d.literal_u16]
            ELSE none
       [] d.mode = 1 /\ d.b = 1 ->
            IF d.dest \in Regs
            THEN [ok |-> TRUE,
                  vd |-> IF d.opcode = "ADD" THEN r[d.dest] ELSE r[d.dest] % U8,
                  vo |-> d.literal_u8]
            ELSE none
       [] OTHER -> none

\* u16::overflowing_mul: the low 16 bits of the product and whether it exceeds
\* them, computed bytewise so that no intermediate value exceeds 2^31
overflowing_mul(x, y) ==
  [v |-> Wrap16(((((x \div U8) * y) % U8) * U8) + (x % U8) * y),
   ov |-> y # 0 /\ x > (U16 - 1) \div y]

\* The (result, overflow) pair of one ALU operation on u16 operands.
AluResult(opcode, vd, vo, checks) ==
  CASE opcode = "ADD" ->
         [ok |-> TRUE, v |-> Wrap16(vd + vo), ov |-> vd + vo >= U16]
    [] opcode \in {"SUB", "CMP"} ->
         [ok |-> TRUE, v |-> Wrap16(vd - vo), ov |-> vd < vo]
    [] opcode = "MUL" ->
         [ok |-> TRUE, v |-> overflowing_mul(vd, vo).v, ov |-> overflowing_mul(vd, vo).ov]
    [] opcode = "DIV" ->
         IF vo = 0 THEN [ok |-> FALSE, v |-> 0, ov |-> FALSE]
         ELSE [ok |-> TRUE, v |-> vd \div vo, ov |-> FALSE]
    [] opcode = "MOD" ->
         IF vo = 0 THEN [ok |-> FALSE, v |-> 0, ov |-> FALSE]
         ELSE [ok |-> TRUE, v |-> vd % vo, ov |-> FALSE]
    [] opcode = "AND" -> [ok |-> TRUE, v |-> BitOp("and", vd, vo, 16), ov |-> FALSE]
    [] opcode = "OR" -> [ok |-> TRUE, v |-> BitOp("or", vd, vo, 16), ov |-> FALSE]
    [] opcode = "XOR" -> [ok |-> TRUE, v |-> BitOp("xor", vd, vo, 16), ov |-> FALSE]
    [] opcode = "SHL" ->
         IF vo >= 16 /\ checks THEN [ok |-> FALSE, v |-> 0, ov |-> FALSE]
         ELSE [ok |-> TRUE, v |-> Wrap16(vd * Pow2(vo % 16)), ov |-> FALSE]
    [] opcode = "SHR" ->
         IF vo >= 16 /\ checks THEN [ok |-> FALSE, v |-> 0, ov |-> FALSE]
         ELSE [ok |-> TRUE, v |-> vd \div Pow2(vo % 16), ov |-> FALSE]

AluOpcodes == {"ADD", "SUB", "MUL", "DIV", "MOD", "AND", "OR", "XOR", "SHL", "SHR", "CMP"}

\* Opcode::ADD .. Opcode::XOR, Opcode::SHL, Opcode::SHR, Opcode::CMP
ExecAlu(d, checks) ==
  LET ops == AluOperands(d)
      res == AluResult(d.opcode, ops.vd, ops.vo, checks)
  IN IF ~ops.ok THEN Panic(d.c)
     ELSE IF ~res.ok THEN Panic(d.c)
     ELSE LET c1 == [d.c EXCEPT !.f = update_flags(@, res.v, res.ov)]
          IN IF d.opcode = "CMP" THEN c1
             ELSE [c1 EXCEPT !.r[d.dest] = res.v]

\* Opcode::INC, Opcode::DEC, Opcode::NOT: one register, both widths alike
ExecUnary(d) ==
  IF d.dest \notin Regs THEN Panic(d.c)
  ELSE LET x == d.c.r[d.dest]
           res == CASE d.opcode = "INC" -> [v |-> Wrap16(x + 1), ov |-> x + 1 >= U16]
                    [] d.opcode = "DEC" -> [v |-> Wrap16(x - 1), ov |-> x < 1]
                    [] OTHER -> [v |-> Wrap16(U16 - x), ov |-> x # 0]
       IN [d.c EXCEPT !.f = update_flags(@, res.v, res.ov), !.r[d.dest] = res.v]

\* Opcode::MOV
ExecMOV(d, checks) ==
  LET c == d.c
  IN CASE d.b = 0 /\ d.mode = 0 -> [c EXCEPT !.r[d.dest] = c.r[d.orig]]
       [] d.b = 0 /\ d.mode = 1 ->
            IF d.dest \in Regs THEN [c EXCEPT !.r[d.dest] = d.literal_u16]
            ELSE Panic(c)
       [] d.b = 0 /\ d.mode = 2 ->
            LET w == Memory_write_u16(c.m, c.r[d.dest], c.r[d.orig], checks)
            IN [c EXCEPT !.m = w.m, !.st = IF w.ok THEN @ ELSE "panic"]
       [] d.b = 0 /\ d.mode = 3 ->
            LET rd == Memory_read_u16(c.m, c.r[d.orig], checks)
            IN IF rd.ok THEN [c EXCEPT !.r[d.dest] = rd.v] ELSE Panic(c)
       [] d.b = 1 /\ d.mode = 0 -> [c EXCEPT !.r[d.dest] = c.r[d.orig] % U8]
       [] d.b = 1 /\ d.mode = 1 ->
            IF d.dest \in Regs THEN [c EXCEPT !.r[d.dest] = d.literal_u8]
            ELSE Panic(c)
       [] d.b = 1 /\ d.mode = 2 ->
            LET w == Memory_write_u8(c.m, c.r[d.dest], c.r[d.orig] % U8)
            IN [c EXCEPT !.m = w.m, !.st = IF w.ok THEN @ ELSE "panic"]
       [] OTHER -> Panic(c)

\* Opcode::PHR
ExecPHR(d, checks) ==
  IF d.dest \in Regs THEN push_u16(d.c, d.c.r[d.dest], checks) ELSE Panic(d.c)

\* Opcode::PLR: the word is pulled first, then stored in the register
ExecPLR(d, checks) ==
  LET p == pull_u16(d.c, checks)
  IN IF p.c.st # "ok" THEN p.c
     ELSE IF d.dest \in Regs THEN [p.c EXCEPT !.r[d.dest] = p.v]
     ELSE Panic(p.c)

\* Opcode::JMP: the register form reads orig, which the decoder leaves 0
ExecJMP(d) ==
  IF d.mode = 0 THEN [d.c EXCEPT !.r[PC] = d.c.r[d.orig]]
  ELSE [d.c EXCEPT !.r[PC] = d.literal_u16]

\* The condition a JumpMode tests
JumpTaken(f, jm) ==
  CASE jm = "Zero" -> get_flag(f, FlagZero)
    [] jm = "NotZero" -> ~get_flag(f, FlagZero)
    [] jm = "Negative" -> get_flag(f, FlagNegative)
    [] jm = "NotNegative" -> ~get_flag(f, FlagNegative)
    [] jm = "Overflow" -> get_flag(f, FlagOverflow)
    [] jm = "NotOverflow" -> ~get_flag(f, FlagOverflow)
    [] OTHER -> FALSE

\* Opcode::JPC
ExecJPC(d) ==
  LET jm == JumpModeFrom(d.dest)
  IN IF d.mode \notin {0, 1} \/ jm = "None" THEN Panic(d.c)
     ELSE IF ~JumpTaken(d.c.f, jm) THEN d.c
     ELSE IF d.mode = 0 THEN [d.c EXCEPT !.r[PC] = d.c.r[d.orig]]
     ELSE [d.c EXCEPT !.r[PC] = d.literal_u16]

\* Opcode::JSB: push the PC that follows the operand, then jump
ExecJSB(d, checks) ==
  LET c1 == push_u16(d.c, d.c.r[PC], checks)
  IN IF c1.st # "ok" THEN c1
     ELSE IF d.mode = 0
          THEN IF d.dest \in Regs THEN [c1 EXCEPT !.r[PC] = c1.r[d.dest]]
               ELSE Panic(c1)
          ELSE [c1 EXCEPT !.r[PC] = d.literal_u16]

\* Opcode::RSB
ExecRSB(d, checks) ==
  LET p == pull_u16(d.c, checks)
  IN IF p.c.st # "ok" THEN p.c ELSE [p.c EXCEPT !.r[PC] = p.v]

\* Opcode::RSI: the PC is pulled first, then the flag word
ExecRSI(d, checks) ==
  LET p1 == pull_u16(d.c, checks)
      c1 == [p1.c EXCEPT !.r[PC] = p1.v]
      p2 == pull_u16(c1, checks)
  IN IF p1.c.st # "ok" THEN p1.c
     ELSE IF p2.c.st # "ok" THEN p2.c
     ELSE [p2.c EXCEPT !.f = p2.v]

\* Machine::step, lines 262-1063: the match on the opcode
Execute(d, checks) ==
  IF d.c.st # "ok" THEN d.c
  ELSE CASE d.opcode = "NOP" -> d.c
         [] d.opcode = "HLT" -> [d.c EXCEPT !.f = set_flag(@, FlagHalt, TRUE)]
         [] d.opcode = "MOV" -> ExecMOV(d, checks)
         [] d.opcode = "PHR" -> ExecPHR(d, checks)
         [] d.opcode = "PLR" -> ExecPLR(d, checks)
         [] d.opcode \in AluOpcodes -> ExecAlu(d, checks)
         [] d.opcode \in {"INC", "DEC", "NOT"} -> ExecUnary(d)
         [] d.opcode = "JMP" -> ExecJMP(d)
         [] d.opcode = "JPC" -> ExecJPC(d)
         [] d.opcode = "JSB" -> ExecJSB(d, checks)
         [] d.opcode = "RSB" -> ExecRSB(d, checks)
         [] d.opcode = "CLI" -> [d.c EXCEPT !.f = set_flag(@, FlagInterruptEnabled, FALSE)]
         [] d.opcode = "SEI" -> [d.c EXCEPT !.f = set_flag(@, FlagInterruptEnabled, TRUE)]
         [] d.opcode = "RSI" -> ExecRSI(d, checks)
         [] OTHER -> Panic(d.c)

\* Machine::step
step(c, checks) == Execute(Decode(c, checks), checks)

(***************************************************************************)
(* Results of bus and device operations: Ok(v), Err(e(a)), or a panic.     *)
(***************************************************************************)
Ok(v) == [tag |-> "ok", v |-> v]
Err(e, a) == [tag |-> "err", e |-> e, a |-> a]
Panicked == [tag |-> "panic"]

(***************************************************************************)
(* Devices (src/devices).  A device is a record; the fields a kind does    *)
(* not have keep their initial value.  channel holds the messages the TCP  *)
(* thread has sent and the device has not yet received (in order), thread  *)
(* is the position of the TCP thread.                                      *)
(***************************************************************************)
DATA_REGISTER_OFFSET == 0
STATUS_REGISTER_OFFSET == 1
CONTROL_REGISTER_OFFSET == 2
CONSOLE_DEVICE_SIZE == 4
TCP_SERIAL_DEVICE_SIZE == 3
RX_READY_BIT == 1
TX_READY_BIT == 2
CLIENT_CONNECTED_BIT == 4
RX_INTERRUPT_ENABLE_BIT == 1
TX_INTERRUPT_ENABLE_BIT == 2
CONNECT_INTERRUPT_ENABLE_BIT == 4
\* Capacity of the input buffer of the console and of the TCP serial device.
CONSOLE_RX_CAPACITY == 4
SERIAL_RX_CAPACITY == 256
\* Ticks before the first simulated console input, and between later ones.
CONSOLE_FIRST_TICKS == 15
CONSOLE_NEXT_TICKS == 20
\* The byte the console simulates: b'S'.
CONSOLE_SIMULATED_CHAR == 83

HasBit(val, bit) == (val \div bit) % 2 = 1

\* CupanaConsole::new
CupanaConsole_new(base) ==
  [kind |-> "console", base_address |-> base, input_buffer |-> << >>,
   rx_interrupt_enabled |-> FALSE, tx_interrupt_enabled |-> FALSE,
   connect_interrupt_enabled |-> FALSE,
   ticks_until_input_event |-> CONSOLE_FIRST_TICKS,
   client_stream |-> FALSE, is_client_connected |-> FALSE,
   channel |-> << >>, thread |-> "none"]

\* CupanaTcpSerial::new: the listener thread starts accepting
CupanaTcpSerial_new(base) ==
  [kind |-> "serial", base_address |-> base, input_buffer |-> << >>,
   rx_interrupt_enabled |-> FALSE, tx_interrupt_enabled |-> FALSE,
   connect_interrupt_enabled |-> FALSE,
   ticks_until_input_event |-> 0,
   client_stream |-> FALSE, is_client_connected |-> FALSE,
   channel |-> << >>, thread |-> "accepting"]

\* Device::aabb: the console's end is base + 4, the serial device's base + 2
aabb(dev) ==
  IF dev.kind = "console"
  THEN << dev.base_address, dev.base_address + CONSOLE_DEVICE_SIZE >>
  ELSE << dev.base_address, dev.base_address + TCP_SERIAL_DEVICE_SIZE - 1 >>

\* get_status_register_value (console.rs:57, serial.rs:143)
get_status_register_value(dev) ==
  (IF dev.input_buffer # << >> THEN RX_READY_BIT ELSE 0)
  + (IF dev.kind = "console" THEN TX_READY_BIT
     ELSE IF dev.client_stream THEN TX_READY_BIT + CLIENT_CONNECTED_BIT ELSE 0)

\* get_control_register_value (console.rs:68, serial.rs:155)
get_control_register_value(dev) ==
  (IF dev.rx_interrupt_enabled THEN RX_INTERRUPT_ENABLE_BIT ELSE 0)
  + (IF dev.kind = "console"
     THEN (IF dev.tx_interrupt_enabled THEN TX_INTERRUPT_ENABLE_BIT ELSE 0)
     ELSE (IF dev.connect_interrupt_enabled THEN CONNECT_INTERRUPT_ENABLE_BIT ELSE 0))

\* The push of one DataReceived message without the limit of the buffer
PushBytes_NoLimit(buf, data, cap) == buf \o data

\* push the bytes of one DataReceived message until the buffer is full: the
\* loop pushes the first cap - Len(buf) bytes of the message, if that many
PushBytes(buf, data, cap) ==
  LET room == IF Len(buf) >= cap THEN 0 ELSE cap - Len(buf)
      n == IF Len(data) < room THEN Len(data) ELSE room
  IN buf \o SubSeq(data, 1, n)

RECURSIVE Drain(_, _)
\* the loop of CupanaTcpSerial::process_tcp_messages over the queued messages
Drain(dev, changed) ==
  IF dev.channel = << >> THEN [dev |-> dev, changed |-> changed]
  ELSE LET msg == Head(dev.channel)
           d0 == [dev EXCEPT !.channel = Tail(@)]
       IN CASE msg.type = "ClientConnected" ->
                 Drain([d0 EXCEPT !.client_stream = TRUE,
                                  !.is_client_connected = TRUE], TRUE)
            [] msg.type = "ClientDisconnected" ->
                 Drain([d0 EXCEPT !.client_stream = FALSE,
                                  !.is_client_connected = FALSE], TRUE)
            [] msg.type = "DataReceived" ->
                 Drain([d0 EXCEPT !.input_buffer =
                          PushBytes(@, msg.data, SERIAL_RX_CAPACITY)], changed)
            [] OTHER -> Drain(d0, changed)

\* CupanaTcpSerial::process_tcp_messages
process_tcp_messages(dev) == Drain(dev, FALSE)

\* CupanaConsole::simulate_external_input_event
simulate_external_input_event(dev) ==
  IF Len(dev.input_buffer) < CONSOLE_RX_CAPACITY
  THEN [dev EXCEPT !.input_buffer = Append(@, CONSOLE_SIMULATED_CHAR)]
  ELSE dev

\* The register read with DATA taking the newest byte of the input buffer
RegisterRead_PopBack(dev, off) ==
  IF off = DATA_REGISTER_OFFSET /\ dev.input_buffer # << >>
  THEN [dev |-> [dev EXCEPT !.input_buffer = SubSeq(@, 1, Len(@) - 1)],
        res |-> Ok(dev.input_buffer[Len(dev.input_buffer)])]
  ELSE [dev |-> dev, res |-> Ok(0)]

\* The register read both devices share, after the serial device has drained
RegisterRead(dev, off) ==
  CASE off = DATA_REGISTER_OFFSET ->
         IF dev.input_buffer # << >>
         THEN [dev |-> [dev EXCEPT !.input_buffer = Tail(@)],
               res |-> Ok(Head(dev.input_buffer))]
         ELSE [dev |-> dev, res |-> Ok(0)]
    [] off = STATUS_REGISTER_OFFSET ->
         [dev |-> dev, res |-> Ok(get_status_register_value(dev))]
    [] off = CONTROL_REGISTER_OFFSET ->
         [dev |-> dev, res |-> Ok(get_control_register_value(dev))]
    [] OTHER ->
         [dev |-> dev, res |-> Err("InvalidRamAddress", dev.base_address + off)]

\* Device::read_u8 (console.rs:85, serial.rs:219)
Device_read_u8(dev, off) ==
  IF dev.kind = "console" THEN RegisterRead(dev, off)
  ELSE RegisterRead(process_tcp_messages(dev).dev, off)

\* Device::write_u8 with the STATUS register writable like CONTROL
Device_write_u8_StatusAsControl(dev, off, val, io) ==
  LET d0 == IF dev.kind = "console" THEN dev ELSE process_tcp_messages(dev).dev
  IN IF off \in { STATUS_REGISTER_OFFSET, CONTROL_REGISTER_OFFSET }
     THEN [dev |-> [d0 EXCEPT
                      !.rx_interrupt_enabled = HasBit(val, RX_INTERRUPT_ENABLE_BIT)],
           res |-> Ok(0)]
     ELSE [dev |-> d0, res |-> Ok(0)]

\* Device::write_u8 (console.rs:108, serial.rs:236); io is what the TCP stream
\* answers to a write: "ok" (also a write that would block) or "error"
Device_write_u8(dev, off, val, io) ==
  LET d0 == IF dev.kind = "console" THEN dev ELSE process_tcp_messages(dev).dev
  IN CASE off = DATA_REGISTER_OFFSET ->
            IF d0.kind = "serial" /\ d0.client_stream /\ io = "error"
            THEN [dev |-> [d0 EXCEPT !.is_client_connected = FALSE,
                                     !.client_stream = FALSE],
                  res |-> Ok(0)]
            ELSE [dev |-> d0, res |-> Ok(0)]
       [] off = CONTROL_REGISTER_OFFSET ->
            [dev |-> IF d0.kind = "console"
                     THEN [d0 EXCEPT
                             !.rx_interrupt_enabled = HasBit(val, RX_INTERRUPT_ENABLE_BIT),
                             !.tx_interrupt_enabled = HasBit(val, TX_INTERRUPT_ENABLE_BIT)]
                     ELSE [d0 EXCEPT
                             !.rx_interrupt_enabled = HasBit(val, RX_INTERRUPT_ENABLE_BIT),
                             !.connect_interrupt_enabled =
                                HasBit(val, CONNECT_INTERRUPT_ENABLE_BIT)],
             res |-> Ok(0)]
       [] off = STATUS_REGISTER_OFFSET ->
            [dev |-> d0, res |-> Err("WriteNotPermitted", d0.base_address + off)]
       [] OTHER ->
            [dev |-> d0, res |-> Err("InvalidRamAddress", d0.base_address + off)]

\* Device::read_u16, the trait's default: two byte reads, low byte first
Device_read_u16(dev, off) ==
  LET lo == Device_read_u8(dev, off)
      hi == Device_read_u8(lo.dev, off + 1)
  IN IF lo.res.tag # "ok" THEN lo
     ELSE IF hi.res.tag # "ok" THEN hi
     ELSE [dev |-> hi.dev, res |-> Ok(Word(lo.res.v, hi.res.v))]

\* Device::check_interrupt (console.rs:132, serial.rs:273)
check_interrupt(dev) ==
  IF dev.kind = "console"
  THEN LET d1 == IF dev.ticks_until_input_event > 0
                 THEN IF dev.ticks_until_input_event - 1 = 0
                      THEN [simulate_external_input_event(dev) EXCEPT
                              !.ticks_until_input_event = CONSOLE_NEXT_TICKS]
                      ELSE [dev EXCEPT !.ticks_until_input_event = @ - 1]
                 ELSE dev
       IN [dev |-> d1,
           irq |-> d1.rx_interrupt_enabled /\ d1.input_buffer # << >>]
  ELSE LET p == process_tcp_messages(dev)
       IN [dev |-> p.dev,
           irq |-> \/ p.dev.rx_interrupt_enabled /\ p.dev.input_buffer # << >>
                   \/ p.dev.connect_interrupt_enabled /\ p.changed]

(***************************************************************************)
(* struct MemoryBus (src/memory/mod.rs) with Rom, Ram and Stack.  A bus is *)
(* a record [rom, ram, stack, devices]; rom, ram and stack keep the        *)
(* non-zero bytes by offset, devices is the list of registered devices.    *)
(* An operation yields [bus |-> the bus after it, res |-> its result].     *)
(***************************************************************************)
saturating_add(a, n) == IF a + n > U16 - 1 THEN U16 - 1 ELSE a + n

\* MemoryBus::new
MemoryBus_new == [rom |-> EmptyMem, ram |-> EmptyMem, stack |-> EmptyMem, devices |-> << >>]

\* Rom::load: an image is [len, bytes]; its first len bytes replace the ROM's
Rom_load(rom, image) ==
  LET keep == {o \in DOMAIN rom : o >= image.len}
  IN [o \in keep \cup DOMAIN image.bytes |->
        IF o \in DOMAIN image.bytes THEN image.bytes[o] ELSE rom[o]]

\* Rom::read_u8
Rom_read_u8(rom, off) == Ok(MemGet(rom, off))

\* Rom::read_u16
Rom_read_u16(rom, off) ==
  IF off + 1 >= ROM_SIZE THEN Panicked
  ELSE Ok(Word(MemGet(rom, off), MemGet(rom, off + 1)))

\* Rom::write_u8 and Rom::write_u16
Rom_write(off) == Err("WriteNotPermitted", off)

\* Ram::read_u8
Ram_read_u8(ram, off) == Ok(MemGet(ram, off))

\* Ram::read_u16
Ram_read_u16(ram, off) == Ok(Word(MemGet(ram, off), MemGet(ram, off + 1)))

\* Ram::write_u8
Ram_write_u8(ram, off, val) == [data |-> MemSet(ram, off, val), res |-> Ok(0)]

\* Ram::write_u16
Ram_write_u16(ram, off, val) ==
  [data |-> MemSet(MemSet(ram, off, LowByte(val)), off + 1, HighByte(val)),
   res |-> Ok(0)]

\* Stack::read_u8
Stack_read_u8(stack, off) == Ok(MemGet(stack, off))

\* Stack::read_u16: data[off + 1] is out of bounds at the last offset
Stack_read_u16(stack, off) ==
  IF off + 1 >= STACK_SIZE THEN Panicked
  ELSE Ok(Word(MemGet(stack, off), MemGet(stack, off + 1)))

\* Stack::write_u8
Stack_write_u8(stack, off, val) == [data |-> MemSet(stack, off, val), res |-> Ok(0)]

\* Stack::write_u16: the low byte is stored before data[off + 1] is indexed
Stack_write_u16(stack, off, val) ==
  IF off + 1 >= STACK_SIZE
  THEN [data |-> MemSet(stack, off, LowByte(val)), res |-> Panicked]
  ELSE [data |-> MemSet(MemSet(stack, off, LowByte(val)), off + 1, HighByte(val)),
        res |-> Ok(0)]

RECURSIVE FindFrom(_, _, _)
FindFrom(devs, addr, i) ==
  IF i > Len(devs) THEN 0
  ELSE IF addr >= aabb(devs[i])[1] /\ addr <= aabb(devs[i])[2] THEN i
  ELSE FindFrom(devs, addr, i + 1)

\* MemoryBus::find_device: the index of the first device whose range holds
\* addr, 0 for None
find_device(devs, addr) == FindFrom(devs, addr, 1)

\* MemoryBus::add_device
add_device(bus, dev) == [bus EXCEPT !.devices = Append(@, dev)]

\* MemoryBus::iter_devices with the device registered first left out
iter_devices_SkipFirst(bus) == [k \in 1..(Len(bus.devices) - 1) |-> k + 1]

\* MemoryBus::iter_devices: the device cells in the order of the list, each
\* named by its position in it
iter_devices(bus) == [k \in 1..Len(bus.devices) |-> k]

\* MemoryBus::load_rom_data
load_rom_data(bus, image) == [bus EXCEPT !.rom = Rom_load(@, image)]

\* MemoryBus::read_u8
Bus_read_u8(bus, addr) ==
  LET i == find_device(bus.devices, addr)
  IN IF addr >= ROM_BASE /\ addr <= ROM_END
     THEN [bus |-> bus, res |-> Rom_read_u8(bus.rom, addr)]
     ELSE IF addr >= RAM_BASE /\ addr <= RAM_END
     THEN [bus |-> bus, res |-> Ram_read_u8(bus.ram, addr - RAM_BASE)]
     ELSE IF addr >= STACK_BASE /\ addr <= STACK_END
     THEN [bus |-> bus, res |-> Stack_read_u8(bus.stack, addr - STACK_BASE)]
     ELSE IF i # 0
     THEN LET r == Device_read_u8(bus.devices[i], addr - aabb(bus.devices[i])[1])
          IN [bus |-> [bus EXCEPT !.devices[i] = r.dev], res |-> r.res]
     ELSE [bus |-> bus, res |-> Err("InvalidRamAddress", addr)]

\* MemoryBus::read_u16
Bus_read_u16(bus, addr) ==
  LET i == find_device(bus.devices, addr)
  IN IF addr >= ROM_BASE /\ saturating_add(addr, 1) <= ROM_END
     THEN [bus |-> bus, res |-> Rom_read_u16(bus.rom, addr)]
     ELSE IF addr >= RAM_BASE /\ saturating_add(addr, 1) <= RAM_END
     THEN [bus |-> bus, res |-> Ram_read_u16(bus.ram, addr - RAM_BASE)]
     ELSE IF addr >= STACK_BASE /\ addr <= STACK_END
     THEN [bus |-> bus, res |-> Stack_read_u16(bus.stack, addr - STACK_BASE)]
     ELSE IF i # 0
     THEN IF saturating_add(addr, 1) > aabb(bus.devices[i])[2]
          THEN [bus |-> bus, res |-> Err("InvalidRamAddress", addr)]
          ELSE LET r == Device_read_u16(bus.devices[i], addr - aabb(bus.devices[i])[1])
               IN [bus |-> [bus EXCEPT !.devices[i] = r.dev], res |-> r.res]
     ELSE [bus |-> bus, res |-> Err("InvalidRamAddress", addr)]

\* MemoryBus::write_u8 with a ROM that stores what is written to it
Bus_write_u8_RomWritable(bus, addr, val, io) ==
  LET i == find_device(bus.devices, addr)
  IN IF addr >= ROM_BASE /\ addr <= ROM_END
     THEN [bus |-> [bus EXCEPT !.rom = MemSet(@, addr - ROM_BASE, val)], res |-> Ok(0)]
     ELSE IF addr >= RAM_BASE /\ addr <= RAM_END
     THEN LET w == Ram_write_u8(bus.ram, addr - RAM_BASE, val)
          IN [bus |-> [bus EXCEPT !.ram = w.data], res |-> w.res]
     ELSE IF addr >= STACK_BASE /\ addr <= STACK_END
     THEN LET w == Stack_write_u8(bus.stack, addr - STACK_BASE, val)
          IN [bus |-> [bus EXCEPT !.stack = w.data], res |-> w.res]
     ELSE IF i # 0
     THEN LET r == Device_write_u8(bus.devices[i], addr - aabb(bus.devices[i])[1], val, io)
          IN [bus |-> [bus EXCEPT !.devices[i] = r.dev], res |-> r.res]
     ELSE [bus |-> bus, res |-> Err("WriteNotPermitted", addr)]

\* MemoryBus::write_u8
Bus_write_u8(bus, addr, val, io) ==
  LET i == find_device(bus.devices, addr)
  IN IF addr >= ROM_BASE /\ addr <= ROM_END
     THEN [bus |-> bus, res |-> Err("WriteNotPermitted", addr)]
     ELSE IF addr >= RAM_BASE /\ addr <= RAM_END
     THEN LET w == Ram_write_u8(bus.ram, addr - RAM_BASE, val)
          IN [bus |-> [bus EXCEPT !.ram = w.data], res |-> w.res]
     ELSE IF addr >= STACK_BASE /\ addr <= STACK_END
     THEN LET w == Stack_write_u8(bus.stack, addr - STACK_BASE, val)
          IN [bus |-> [bus EXCEPT !.stack = w.data], res |-> w.res]
     ELSE IF i # 0
     THEN LET r == Device_write_u8(bus.devices[i], addr - aabb(bus.devices[i])[1], val, io)
          IN [bus |-> [bus EXCEPT !.devices[i] = r.dev], res |-> r.res]
     ELSE [bus |-> bus, res |-> Err("WriteNotPermitted", addr)]

\* MemoryBus::write_u16: a device gets one byte write of the low byte
Bus_write_u16(bus, addr, val, io) ==
  LET i == find_device(bus.devices, addr)
  IN IF addr >= ROM_BASE /\ saturating_add(addr, 1) <= ROM_END
     THEN [bus |-> bus, res |-> Err("WriteNotPermitted", addr)]
     ELSE IF addr >= RAM_BASE /\ saturating_add(addr, 1) <= RAM_END
     THEN LET w == Ram_write_u16(bus.ram, addr - RAM_BASE, val)
          IN [bus |-> [bus EXCEPT !.ram = w.data], res |-> w.res]
     ELSE IF addr >= STACK_BASE /\ addr <= STACK_END
     THEN LET w == Stack_write_u16(bus.stack, addr - STACK_BASE, val)
          IN [bus |-> [bus EXCEPT !.stack = w.data], res |-> w.res]
     ELSE IF i # 0
     THEN LET r == Device_write_u8(bus.devices[i], addr - aabb(bus.devices[i])[1],
                                   LowByte(val), io)
          IN [bus |-> [bus EXCEPT !.devices[i] = r.dev], res |-> r.res]
     ELSE [bus |-> bus, res |-> Err("WriteNotPermitted", addr)]

(***************************************************************************)
(* The assembler (src/casm): the Operand, Instruction and Statement values *)
(* of parser.rs, Parser::parse, and the two passes of Assembler.           *)
(***************************************************************************)
\* parser.rs Operand: one record shape for the six variants
Register(r) == [t |-> "Register", r |-> r, v |-> 0, n |-> "", s |-> << >>]
RegisterIndirect(r) == [t |-> "RegisterIndirect", r |-> r, v |-> 0, n |-> "", s |-> << >>]
Literal(v) == [t |-> "Literal", r |-> 0, v |-> v, n |-> "", s |-> << >>]
Alias(n) == [t |-> "Alias", r |-> 0, v |-> 0, n |-> n, s |-> << >>]
LabelRef(n) == [t |-> "LabelRef", r |-> 0, v |-> 0, n |-> n, s |-> << >>]
\* the characters of the string, as their codes
CharString(s) == [t |-> "CharString", r |-> 0, v |-> 0, n |-> "", s |-> s]

\* parser.rs Statement: one record shape for the four variants; in the source
\* text mn is the mnemonic token, in the parsed program the Instruction variant
StmtInstruction(mn, ops) == [k |-> "Instruction", mn |-> mn, name |-> "", ops |-> ops]
StmtLabel(name) == [k |-> "Label", mn |-> "", name |-> name, ops |-> << >>]
StmtAliasDeclaration(name, op) ==
  [k |-> "AliasDeclaration", mn |-> "", name |-> name, ops |-> << op >>]
StmtDirective(name, op) == [k |-> "Directive", mn |-> "", name |-> name, ops |-> << op >>]

\* IndexMap: a sequence of entries in insertion order
RECURSIVE MapFind(_, _, _)
MapFind(map, key, i) ==
  IF i > Len(map) THEN 0
  ELSE IF map[i].k = key THEN i
  ELSE MapFind(map, key, i + 1)
MapHas_Never(map, key) == FALSE

\* IndexMap::contains_key
MapHas(map, key) == MapFind(map, key, 1) # 0
\* IndexMap::get, of a key the map holds
MapGet(map, key) == map[MapFind(map, key, 1)].v
\* IndexMap::insert: a held key keeps its place and takes the new value
MapInsert(map, key, val) ==
  IF MapHas(map, key)
  THEN [map EXCEPT ![MapFind(map, key, 1)] = [k |-> key, v |-> val]]
  ELSE Append(map, [k |-> key, v |-> val])

\* Parser::parse_instruction: the Instruction variant built for each mnemonic
\* token (the Token::Plr arm builds Instruction::Phr)
parse_instruction ==
  [ NOP |-> "Nop", HLT |-> "Hlt", MOV |-> "Mov", PHR |-> "Phr", PLR |-> "Phr",
    ADD |-> "Add", SUB |-> "Sub", MUL |-> "Mul", DIV |-> "Div", MOD |-> "Mod",
    INC |-> "Inc", DEC |-> "Dec", AND |-> "And", OR |-> "Or", XOR |-> "Xor",
    NOT |-> "Not", CMP |-> "Cmp", JMP |-> "Jmp", JZ |-> "Jz", JNZ |-> "Jnz",
    JN |-> "Jn", JNN |-> "Jnn", JC |-> "Jc", JNC |-> "Jnc", JSB |-> "Jsb",
    RSB |-> "Rsb", CLI |-> "Cli", SEI |-> "Sei", RSI |-> "Rsi" ]

RECURSIVE ParseAliases(_, _, _)
ParseAliases(src, i, aliases) ==
  IF i > Len(src) THEN aliases
  ELSE ParseAliases(src, i + 1,
         IF src[i].k = "AliasDeclaration"
         THEN MapInsert(aliases, src[i].name, src[i].ops[1])
         ELSE aliases)

\* Parser::parse: one Statement for each statement of the source, and the
\* alias map filled on the way
Parser_parse(src) ==
  [ statements |-> [i \in 1..Len(src) |->
                      IF src[i].k = "Instruction"
                      THEN [src[i] EXCEPT !.mn = parse_instruction[src[i].mn]]
                      ELSE src[i]],
    aliases |-> ParseAliases(src, 1, << >>) ]

MAX_ALIAS_DEPTH == 10
OUTPUT_SIZE == 32768

RECURSIVE resolve_operand_for_size_Cap9(_, _, _)
resolve_operand_for_size_Cap9(operand, aliases, depth) ==
  IF depth > MAX_ALIAS_DEPTH - 1 THEN "Err"
  ELSE CASE operand.t \in {"Register", "RegisterIndirect"} -> "RegisterLike"
         [] operand.t \in {"Literal", "LabelRef"} -> "LiteralLike"
         [] operand.t = "Alias" ->
              IF MapHas(aliases, operand.n)
              THEN resolve_operand_for_size_Cap9(MapGet(aliases, operand.n), aliases,
                                                 depth + 1)
              ELSE "Err"
         [] OTHER -> "Err"

\* Assembler::resolve_operand_for_size
RECURSIVE resolve_operand_for_size(_, _, _)
resolve_operand_for_size(operand, aliases, depth) ==
  IF depth > MAX_ALIAS_DEPTH THEN "Err"
  ELSE CASE operand.t \in {"Register", "RegisterIndirect"} -> "RegisterLike"
         [] operand.t \in {"Literal", "LabelRef"} -> "LiteralLike"
         [] operand.t = "Alias" ->
              IF MapHas(aliases, operand.n)
              THEN resolve_operand_for_size(MapGet(aliases, operand.n), aliases, depth + 1)
              ELSE "Err"
         [] OTHER -> "Err"

SizeOk(n) == [ok |-> TRUE, n |-> n]
SizeErr == [ok |-> FALSE, n |-> 0]

\* Assembler::get_instruction_size
get_instruction_size(instruction, aliases) ==
  LET ty(i) == resolve_operand_for_size(instruction.ops[i], aliases, 0)
      mn == instruction.mn
  IN CASE mn \in {"Nop", "Hlt", "Rsb", "Rsi", "Cli", "Sei"} -> SizeOk(1)
       [] mn \in {"Inc", "Dec", "Not", "Phr", "Plr"} ->
            IF ty(1) = "RegisterLike" THEN SizeOk(1 + 1) ELSE SizeErr
       [] mn = "Mov" ->
            IF ty(1) = "Err" \/ ty(2) = "Err" THEN SizeErr
            ELSE IF ty(1) = "RegisterLike" /\ ty(2) = "RegisterLike" THEN SizeOk(1 + 1 + 1)
            ELSE IF ty(1) = "RegisterLike" /\ ty(2) = "LiteralLike" THEN SizeOk(1 + 1 + 2)
            ELSE IF ty(1) = "LiteralLike" /\ ty(2) = "RegisterLike" THEN SizeOk(1 + 2 + 1)
            ELSE SizeOk(1 + 2 + 2)
       [] mn \in {"Add", "Mul", "Cmp", "Sub", "Div", "Mod", "And", "Or", "Xor"} ->
            IF ty(1) = "Err" \/ ty(2) = "Err" THEN SizeErr
            ELSE IF ty(1) = "RegisterLike" /\ ty(2) = "RegisterLike" THEN SizeOk(1 + 1 + 1)
            ELSE IF ty(1) = "RegisterLike" /\ ty(2) = "LiteralLike" THEN SizeOk(1 + 1 + 2)
            ELSE SizeErr
       [] mn \in {"Jmp", "Jz", "Jnz", "Jn", "Jnn", "Jc", "Jnc"} ->
            IF ty(1) = "LiteralLike" THEN SizeOk(1 + 2)
            ELSE IF ty(1) = "RegisterLike" THEN SizeOk(1 + 1)
            ELSE SizeErr
       [] mn = "Jsb" ->
            IF ty(1) = "LiteralLike" THEN SizeOk(1 + 2) ELSE SizeErr

\* The bytes a piece of second-pass code emits, and whether it returned Ok.
Emit(bytes) == [bytes |-> bytes, ok |-> TRUE]
EmitErr == [bytes |-> << >>, ok |-> FALSE]
\* a; b with the ? operator after a
Then(a, b) == IF a.ok THEN [bytes |-> a.bytes \o b.bytes, ok |-> b.ok] ELSE a

\* Assembler::emit_u16: the low byte first
emit_u16(value) == Emit(<< LowByte(value), HighByte(value) >>)

ErrOperand == [t |-> "Err", r |-> 0, v |-> 0, n |-> "", s |-> << >>]

\* Assembler::resolve_operand_fully
RECURSIVE resolve_operand_fully(_, _, _, _)
resolve_operand_fully(operand, aliases, labels, depth) ==
  IF depth > MAX_ALIAS_DEPTH THEN ErrOperand
  ELSE CASE operand.t = "Alias" ->
              IF MapHas(aliases, operand.n)
              THEN resolve_operand_fully(MapGet(aliases, operand.n), aliases, labels,
                                         depth + 1)
              ELSE ErrOperand
         [] operand.t = "LabelRef" ->
              IF MapHas(labels, operand.n) THEN Literal(MapGet(labels, operand.n))
              ELSE ErrOperand
         [] OTHER -> operand

\* Assembler::emit_operand_reg
emit_operand_reg(operand, aliases, labels) ==
  LET resolved == resolve_operand_fully(operand, aliases, labels, 0)
  IN IF resolved.t \in {"Register", "RegisterIndirect"}
     THEN IF resolved.r > 15 THEN EmitErr ELSE Emit(<< resolved.r >>)
     ELSE EmitErr

\* Assembler::emit_operand_literal
emit_operand_literal(operand, aliases, labels) ==
  LET resolved == resolve_operand_fully(operand, aliases, labels, 0)
  IN IF resolved.t = "Literal" THEN emit_u16(resolved.v) ELSE EmitErr

\* Assembler::generate_mov
generate_mov(dest, src, aliases, labels) ==
  LET d == resolve_operand_fully(dest, aliases, labels, 0)
      s == resolve_operand_fully(src, aliases, labels, 0)
      reg(o) == emit_operand_reg(o, aliases, labels)
      lit(o) == emit_operand_literal(o, aliases, labels)
  IN IF d.t = "Err" \/ s.t = "Err" THEN EmitErr
     ELSE CASE d.t = "Register" /\ s.t = "Register" ->
                 Then(Emit(<< 16 >>), Then(reg(d), reg(s)))
            [] d.t = "Register" /\ s.t = "Literal" ->
                 Then(Emit(<< 17 >>), Then(reg(d), lit(s)))
            [] d.t = "Register" /\ s.t = "RegisterIndirect" ->
                 Then(Emit(<< 18 >>), Then(reg(d), reg(s)))
            [] d.t = "Literal" /\ s.t = "Register" ->
                 Then(Emit(<< 19 >>), Then(lit(d), reg(s)))
            [] d.t = "Literal" /\ s.t = "Literal" ->
                 Then(Emit(<< 20 >>), Then(lit(d), lit(s)))
            [] d.t = "RegisterIndirect" /\ s.t = "Register" ->
                 Then(Emit(<< 21 >>), Then(reg(d), reg(s)))
            [] d.t = "RegisterIndirect" /\ s.t = "Literal" ->
                 Then(Emit(<< 22 >>), Then(reg(d), lit(s)))
            [] OTHER -> EmitErr

\* Assembler::generate_binary_arithmetic_logic, and generate_cmp with its two
\* opcodes
generate_binary_arithmetic_logic(reg_reg_opcode, reg_lit_opcode, op1, op2, aliases, labels) ==
  LET r1 == resolve_operand_fully(op1, aliases, labels, 0)
      r2 == resolve_operand_fully(op2, aliases, labels, 0)
  IN IF r1.t = "Register" /\ r2.t = "Register"
     THEN Emit(<< reg_reg_opcode, r1.r, r2.r >>)
     ELSE IF r1.t = "Register" /\ r2.t = "Literal"
     THEN Then(Emit(<< reg_lit_opcode, r1.r >>), emit_u16(r2.v))
     ELSE EmitErr

\* Assembler::generate_jump
generate_jump(lit_opcode, reg_opcode, op, aliases, labels) ==
  LET r == resolve_operand_fully(op, aliases, labels, 0)
  IN IF r.t = "Literal" THEN Then(Emit(<< lit_opcode >>), emit_u16(r.v))
     ELSE IF r.t = "Register" /\ r.r < 16 THEN Emit(<< reg_opcode, r.r >>)
     ELSE EmitErr

\* The two opcodes generate_instruction passes on for each two-operand
\* instruction and each jump
OpcodePair ==
  [ Add |-> << 32, 33 >>, Sub |-> << 34, 35 >>, Mul |-> << 36, 37 >>,
    Div |-> << 38, 40 >>, Mod |-> << 40, 41 >>,
    And |-> << 48, 49 >>, Or |-> << 50, 51 >>, Xor |-> << 52, 53 >>,
    Cmp |-> << 64, 65 >>,
    Jmp |-> << 80, 81 >>, Jz |-> << 82, 83 >>, Jnz |-> << 84, 85 >>,
    Jn |-> << 86, 87 >>, Jnn |-> << 88, 89 >>, Jc |-> << 90, 91 >>,
    Jnc |-> << 92, 93 >> ]

\* The opcode generate_instruction emits itself
OpcodeByte ==
  [ Nop |-> 0, Hlt |-> 1, Phr |-> 23, Plr |-> 24, Inc |-> 42, Dec |-> 43,
    Not |-> 54, Jsb |-> 94, Rsb |-> 95, Cli |-> 96, Sei |-> 97, Rsi |-> 98 ]

\* Assembler::generate_instruction
generate_instruction(instruction, aliases, labels) ==
  LET mn == instruction.mn
      op(i) == instruction.ops[i]
  IN CASE mn \in {"Nop", "Hlt", "Rsb", "Cli", "Sei", "Rsi"} -> Emit(<< OpcodeByte[mn] >>)
       [] mn = "Mov" -> generate_mov(op(1), op(2), aliases, labels)
       [] mn \in {"Phr", "Plr", "Inc", "Dec", "Not"} ->
            Then(Emit(<< OpcodeByte[mn] >>), emit_operand_reg(op(1), aliases, labels))
       [] mn \in {"Add", "Sub", "Mul", "Div", "Mod", "And", "Or", "Xor", "Cmp"} ->
            generate_binary_arithmetic_logic(OpcodePair[mn][1], OpcodePair[mn][2],
                                             op(1), op(2), aliases, labels)
       [] mn \in {"Jmp", "Jz", "Jnz", "Jn", "Jnn", "Jc", "Jnc"} ->
            generate_jump(OpcodePair[mn][1], OpcodePair[mn][2], op(1), aliases, labels)
       [] mn = "Jsb" ->
            Then(Emit(<< OpcodeByte[mn] >>), emit_operand_literal(op(1), aliases, labels))

\* emit_u16(c as u16) for each character of the string
RECURSIVE CharBytes(_)
CharBytes(s) ==
  IF s = << >> THEN << >>
  ELSE << LowByte(Head(s)), HighByte(Head(s)) >> \o CharBytes(Tail(s))

\* str::to_lowercase, on the directive names of the sources
to_lowercase == [ org |-> "org", word |-> "word", WORD |-> "word", byte |-> "byte" ]

\* The bytes the "word" directive emits in the second pass: a reference to a
\* label the program does not define emits nothing
WordBytes(value, labels) ==
  CASE value.t = "Literal" -> << LowByte(value.v), HighByte(value.v) >>
    [] value.t = "LabelRef" ->
         IF MapHas(labels, value.n)
         THEN << LowByte(MapGet(labels, value.n)), HighByte(MapGet(labels, value.n)) >>
         ELSE << >>
    [] value.t = "CharString" -> CharBytes(value.s)
    [] OTHER -> << >>

\* The advance of the first-pass address at the "word" directive
WordSize(value) ==
  CASE value.t \in {"LabelRef", "Literal"} -> 2
    [] value.t = "CharString" -> 2 * Len(value.s)
    [] OTHER -> 0

\* Assembler::new, before assemble_string is called. The fields are those of
\* the Assembler (output, current_address), of the Program (statements,
\* aliases, labels), the local address of first_pass, the source text src, the
\* place of the call (at), the error it returned (err: the message of a
\* duplicate label, else the function that failed), the statement the current
\* pass is at (i), the
\* value current_address had before the last statement (stmt_start) and the
\* value it had at each label of the second pass (cursors).
Assembler_new ==
  [ at |-> "new", err |-> "", src |-> << >>, statements |-> << >>, aliases |-> << >>,
    labels |-> << >>, address |-> 0, i |-> 0, stmt_start |-> 0, cursors |-> << >>,
    output |-> EmptyMem, current_address |-> 0 ]

(***************************************************************************)
(* State.                                                                  *)
(*   registers, flags, mem : the Machine and the Memory it steps on        *)
(*   cpuSt          : "ok", or "panic" once a step has panicked            *)
(*   overflowChecks : TRUE in a build with integer overflow checks         *)
(*   steps          : number of steps and resets (at most MaxSteps)        *)
(*   last, prev     : what the last two operations on the Machine were,    *)
(*                    with the registers, flags and memory they started in *)
(*   bus            : the MemoryBus (with the registered devices)          *)
(*   busLast        : the last bus operation, its result, the bus before   *)
(*                    and after it                                         *)
(*   busOps         : number of bus operations (at most MaxBusOps)         *)
(*   running        : Cupana.running                                       *)
(*   runPc          : where Cupana::run is: "idle" before the call, "loop" *)
(*                    at the loop test, "sweep" in the device loop,        *)
(*                    "returned" after Ok(()), "aborted" after a panic     *)
(*   devIdx         : the next device of the sweep                         *)
(*   polled         : the devices polled in the current sweep, in order    *)
(*   asserted       : the devices that asserted in the current sweep       *)
(*   flagsAfterStep : the flag word the last step of run left              *)
(*   asm            : the Assembler and the Program it assembles           *)
(*   listener       : the Receiver the TCP thread sends to, and what the   *)
(*                    thread did after a send of its failed                *)
(***************************************************************************)
VARIABLES registers, flags, mem, cpuSt, overflowChecks, steps, last, prev,
          bus, busLast, busOps,
          running, runPc, devIdx, polled, asserted, flagsAfterStep,
          asm, listener

cpuVars == << registers, flags, mem, cpuSt, overflowChecks, steps, last, prev >>
busVars == << bus, busLast, busOps >>
hostVars == << running, runPc, devIdx, polled, asserted, flagsAfterStep, listener >>
asmVars == << asm >>
vars == << cpuVars, busVars, hostVars, asmVars >>

\* Bound on the number of steps and resets of one behaviour.
MaxSteps == 4

\* Instruction encodings: opcode index * 8 + b * 4 + mode.
NOP == << 0 >>
HLT == << 8 >>
MOV_imm(d, v) == << 17, d, LowByte(v), HighByte(v) >>
MOV_rr(d, s) == << 16, d * 16 + s >>
PHR(r) == << 24, r >>
PLR(r) == << 32, r >>
JSB_imm(v) == << 169, LowByte(v), HighByte(v) >>
RSB == << 176 >>
CLI == << 184 >>
SEI == << 192 >>
RSI == << 200 >>

\* Bound on the number of instructions of a generated program.
ProgLen == 3

\* The instructions generated programs are made of.
Instrs ==
  { NOP, HLT, CLI, SEI, RSB, RSI,
    MOV_imm(0, 16), MOV_imm(SP, 65534),
    PHR(0), PHR(SP), PLR(1), PLR(SP),
    JSB_imm(3) }

RECURSIVE Flatten(_)
Flatten(ss) == IF ss = << >> THEN << >> ELSE Head(ss) \o Flatten(Tail(ss))

\* The ROM images a behaviour may start from: every program of ProgLen
\* instructions, and one image with data after the code:
\* SP := 10, then RSI pulls PC = 0x000A from ROM[8..9] and flags = 0x0010
\* from ROM[6..7]; NOP at 0x000A and RSI at 0x000B follow.
Programs ==
  { Flatten(q) : q \in [1..ProgLen -> Instrs] }
  \cup { MOV_imm(SP, 10) \o RSI \o NOP \o << 16, 0 >> \o << 10, 0 >> \o NOP \o RSI }

NoOp == [kind |-> "none"]

Init ==
  /\ registers = Machine_new.r
  /\ flags = Machine_new.f
  /\ mem = EmptyMem
  /\ cpuSt = "ok"
  /\ overflowChecks \in BOOLEAN
  /\ steps = 0
  /\ last = NoOp
  /\ prev = NoOp
  /\ bus = MemoryBus_new
  /\ busLast = NoOp
  /\ busOps = 0
  /\ running = FALSE
  /\ runPc = "idle"
  /\ devIdx = 0
  /\ polled = << >>
  /\ asserted = {}
  /\ flagsAfterStep = 0
  /\ asm = Assembler_new
  /\ listener = [receiver |-> "held", failed |-> FALSE, reads |-> 0, waits |-> 0]

Cpu == [r |-> registers, f |-> flags, m |-> mem, st |-> cpuSt]

Pre == [r |-> registers, f |-> flags, m |-> mem]

\* The unit tests' way of running one program: set the PC to ROM_BASE, load the
\* image into ROM (machine.rs:1153-1154).
LoadRom ==
  /\ cpuSt = "ok"
  /\ last.kind = "none"
  /\ mem = EmptyMem
  /\ \E p \in Programs :
       /\ mem' = Memory_load_rom(mem, p)
       /\ registers' = [registers EXCEPT ![PC] = ROM_BASE]
  /\ UNCHANGED << flags, cpuSt, overflowChecks, asmVars, steps, last, prev >>
  /\ UNCHANGED << busVars, hostVars >>

\* Machine::step on the Machine and its Memory, recorded in last and prev.
MachineStep ==
  LET d == Decode(Cpu, overflowChecks)
      c == Execute(d, overflowChecks)
  IN /\ registers' = c.r
     /\ flags' = c.f
     /\ mem' = c.m
     /\ cpuSt' = c.st
     /\ last' = [kind |-> "step", opcode |-> d.opcode, b |-> d.b, mode |-> d.mode,
                 dest |-> d.dest, orig |-> d.orig, literal_u16 |-> d.literal_u16,
                 literal_u8 |-> d.literal_u8, pre |-> Pre, st |-> c.st]
     /\ prev' = last
     /\ steps' = steps + 1

\* One call of Machine::step.
Step ==
  /\ cpuSt = "ok"
  /\ steps < MaxSteps
  /\ MachineStep
  /\ UNCHANGED << overflowChecks, asmVars, busVars, hostVars >>

\* One call of Machine::reset.
Reset ==
  /\ cpuSt = "ok"
  /\ steps < MaxSteps
  /\ LET c == Machine_reset(Cpu)
     IN /\ registers' = c.r
        /\ flags' = c.f
  /\ last' = [kind |-> "reset", pre |-> Pre]
  /\ prev' = last
  /\ steps' = steps + 1
  /\ UNCHANGED << mem, cpuSt, overflowChecks, asmVars, busVars, hostVars >>

(***************************************************************************)
(* Operations on the memory bus by its client, and the TCP thread of a     *)
(* serial device.                                                          *)
(***************************************************************************)
\* Bound on the number of bus operations of one behaviour.
MaxBusOps == 2
\* Bound on the number of registered devices.
MaxDevices == 2
\* Bound on the number of undelivered messages of one TCP thread.
MaxChannel == 2

\* Addresses the bus is accessed at: the first and last bytes of each region,
\* the registers of a device at MMIO_BASE and the bytes after them.
BusAddrs ==
  { ROM_BASE, ROM_END, RAM_BASE, RAM_END, STACK_BASE, STACK_END,
    MMIO_BASE, MMIO_BASE + 1, MMIO_BASE + 2, MMIO_END }
\* Values written.
BusVals == { 513, 65535 }
\* ROM images loaded into the bus: code at 0 and the vector table at the end.
RomImages ==
  { [len |-> 2, bytes |-> (0 :> 17 @@ 1 :> 1)],
    [len |-> ROM_SIZE,
     bytes |-> (0 :> 8 @@ 32764 :> 52 @@ 32765 :> 18 @@ 32767 :> 170)] }
\* Base addresses devices are created at, inside the MMIO window.
DeviceBases == { MMIO_BASE, MMIO_BASE + 2 }
\* What a TCP stream answers to a write.
IoOutcomes(addr) ==
  IF find_device(bus.devices, addr) # 0 THEN { "ok", "error" } ELSE { "ok" }
\* The data of one read of the TCP thread.
DataChunks == { << 65, 66 >> }

\* The devices a host creates: a console or a TCP serial device.
NewDevices ==
  { CupanaConsole_new(MMIO_BASE) }
    \cup { CupanaTcpSerial_new(b) : b \in DeviceBases }

\* a panic of a bus operation ends the process
BusPanicked == busLast.kind # "none" /\ busLast.res.tag = "panic"

BusOp(op, addr, val, io, r) ==
  /\ bus' = r.bus
  /\ busLast' = [kind |-> op, addr |-> addr, val |-> val, io |-> io,
                 res |-> r.res, pre |-> bus, post |-> r.bus]
  /\ busOps' = busOps + 1
  /\ UNCHANGED << cpuVars, asmVars, hostVars >>

\* Cupana::load_program on the bus
BusLoadRom ==
  /\ bus.rom = EmptyMem /\ busLast.kind = "none"
  /\ \E image \in RomImages : bus' = load_rom_data(bus, image)
  /\ UNCHANGED << busLast, busOps, cpuVars, asmVars, hostVars >>

\* Cupana::register_device
BusAddDevice ==
  /\ Len(bus.devices) < MaxDevices /\ busLast.kind = "none"
  /\ \E dev \in NewDevices : bus' = add_device(bus, dev)
  /\ UNCHANGED << busLast, busOps, cpuVars, asmVars, hostVars >>

BusRead8 ==
  /\ busOps < MaxBusOps /\ ~BusPanicked
  /\ \E addr \in BusAddrs : BusOp("read_u8", addr, 0, "ok", Bus_read_u8(bus, addr))

BusRead16 ==
  /\ busOps < MaxBusOps /\ ~BusPanicked
  /\ \E addr \in BusAddrs : BusOp("read_u16", addr, 0, "ok", Bus_read_u16(bus, addr))

BusWrite8 ==
  /\ busOps < MaxBusOps /\ ~BusPanicked
  /\ \E addr \in BusAddrs, val \in BusVals : \E io \in IoOutcomes(addr) :
       BusOp("write_u8", addr, LowByte(val), io, Bus_write_u8(bus, addr, LowByte(val), io))

BusWrite16 ==
  /\ busOps < MaxBusOps /\ ~BusPanicked
  /\ \E addr \in BusAddrs, val \in BusVals : \E io \in IoOutcomes(addr) :
       BusOp("write_u16", addr, val, io, Bus_write_u16(bus, addr, val, io))

\* The TCP thread of device i accepts a client and sends ClientConnected
\* (serial.rs:68-86).
TcpAccept(i) ==
  /\ bus.devices[i].thread = "accepting"
  /\ Len(bus.devices[i].channel) < MaxChannel
  /\ bus' = [bus EXCEPT !.devices[i].thread = "reading",
                        !.devices[i].channel = Append(@, [type |-> "ClientConnected"])]

\* The TCP thread of device i reads data, or the end of the stream
\* (serial.rs:89-115).
TcpRead(i) ==
  /\ bus.devices[i].thread = "reading"
  /\ Len(bus.devices[i].channel) < MaxChannel
  /\ \/ \E data \in DataChunks :
          bus' = [bus EXCEPT !.devices[i].channel =
                    Append(@, [type |-> "DataReceived", data |-> data])]
     \/ bus' = [bus EXCEPT !.devices[i].thread = "accepting",
                           !.devices[i].channel =
                              Append(@, [type |-> "ClientDisconnected"])]

\* The TCP threads while the bus is operated on.
ThreadAccept ==
  /\ busOps < MaxBusOps
  /\ \E i \in 1..Len(bus.devices) : TcpAccept(i)
  /\ UNCHANGED << busLast, busOps, cpuVars, asmVars, hostVars >>

ThreadRead ==
  /\ busOps < MaxBusOps
  /\ \E i \in 1..Len(bus.devices) : TcpRead(i)
  /\ UNCHANGED << busLast, busOps, cpuVars, asmVars, hostVars >>

NextBus ==
  \/ BusLoadRom \/ BusAddDevice
  \/ BusRead8 \/ BusRead16 \/ BusWrite8 \/ BusWrite16
  \/ ThreadAccept \/ ThreadRead

InitBus == Init /\ overflowChecks = FALSE

SpecBus == InitBus /\ [][NextBus]_vars

(***************************************************************************)
(* The host (src/cupana.rs): Cupana::load_program, register_device, run.   *)
(* Its cpu is the Machine above, stepping on its Memory, which holds the   *)
(* program that load_program hands to the bus.                             *)
(***************************************************************************)
\* Bound on the number of steps of one call of run.
MaxRunSteps == 2

JMP_imm(v) == << 153, LowByte(v), HighByte(v) >>
\* The programs run: halting at once, later, never, and with an opcode the
\* Machine does not know.
RunPrograms ==
  { HLT, NOP \o HLT, SEI \o NOP \o HLT, NOP \o JMP_imm(0), NOP \o << 255 >> }

\* The image of a program: its length and its non-zero bytes by offset.
ImageOf(p) ==
  [len |-> Len(p),
   bytes |-> [o \in { k - 1 : k \in { j \in 1..Len(p) : p[j] # 0 } } |-> p[o + 1]]]

\* The devices a host registers: a console or a TCP serial device, whose
\* CONTROL register it may have written before.
RunDevices ==
  { Device_write_u8(CupanaConsole_new(MMIO_BASE), CONTROL_REGISTER_OFFSET,
                    RX_INTERRUPT_ENABLE_BIT, "ok").dev }
    \cup { Device_write_u8(CupanaTcpSerial_new(b), CONTROL_REGISTER_OFFSET,
                           RX_INTERRUPT_ENABLE_BIT + CONNECT_INTERRUPT_ENABLE_BIT,
                           "ok").dev : b \in DeviceBases }

\* CupanaMachine::request_interrupt: latches the interrupt-pending flag
request_interrupt(f) == set_flag(f, FlagInterruptPending, TRUE)

\* Cupana::load_program
RunLoadProgram ==
  /\ runPc = "idle" /\ mem = EmptyMem /\ bus.rom = EmptyMem
  /\ \E p \in RunPrograms :
       /\ bus' = load_rom_data(bus, ImageOf(p))
       /\ mem' = Memory_load_rom(mem, p)
  /\ UNCHANGED << registers, flags, cpuSt, overflowChecks, asmVars, steps, last, prev,
                  busLast, busOps, hostVars >>

\* Cupana::register_device
RunRegisterDevice ==
  /\ runPc = "idle" /\ Len(bus.devices) < MaxDevices
  /\ \E dev \in RunDevices : bus' = add_device(bus, dev)
  /\ UNCHANGED << cpuVars, asmVars, busLast, busOps, hostVars >>

\* Cupana::run, lines 33-34: running = true, then the reset
RunStart ==
  /\ runPc = "idle"
  /\ running' = TRUE
  /\ LET c == Machine_reset(Cpu)
     IN registers' = c.r /\ flags' = c.f
  /\ runPc' = "loop"
  /\ UNCHANGED << mem, cpuSt, overflowChecks, asmVars, steps, last, prev, busVars,
                  devIdx, polled, asserted, flagsAfterStep, listener >>

\* Cupana::run, lines 35-39: the loop test passes, one step, the Halt check;
\* a step that fails ends run
RunStep ==
  /\ runPc = "loop" /\ running
  /\ steps < MaxRunSteps
  /\ MachineStep
  /\ IF cpuSt' = "ok"
     THEN /\ running' = IF halted(flags') THEN FALSE ELSE running
          /\ runPc' = "sweep"
          /\ devIdx' = 1
          /\ polled' = << >>
          /\ asserted' = {}
          /\ flagsAfterStep' = flags'
     ELSE /\ runPc' = "aborted"
          /\ UNCHANGED << running, devIdx, polled, asserted, flagsAfterStep >>
  /\ UNCHANGED << overflowChecks, asmVars, busVars, listener >>

\* Cupana::run, lines 40-45: one iteration of the loop over the devices
RunPoll ==
  /\ runPc = "sweep" /\ devIdx <= Len(iter_devices(bus))
  /\ LET i == iter_devices(bus)[devIdx]
         r == check_interrupt(bus.devices[i])
     IN /\ bus' = [bus EXCEPT !.devices[i] = r.dev]
        /\ polled' = Append(polled, i)
        /\ flags' = IF r.irq THEN request_interrupt(flags) ELSE flags
        /\ asserted' = IF r.irq THEN asserted \cup {i} ELSE asserted
  /\ devIdx' = devIdx + 1
  /\ UNCHANGED << registers, mem, cpuSt, overflowChecks, asmVars, steps, last, prev,
                  busLast, busOps, running, runPc, flagsAfterStep, listener >>

\* Cupana::run, line 45: the loop over the devices ends
RunSweepDone ==
  /\ runPc = "sweep" /\ devIdx > Len(iter_devices(bus))
  /\ runPc' = "loop"
  /\ UNCHANGED << cpuVars, asmVars, busVars, running, devIdx, polled, asserted, flagsAfterStep, listener >>

\* Cupana::run, lines 35 and 47: the loop test fails, run returns Ok(())
RunReturn ==
  /\ runPc = "loop" /\ ~running
  /\ runPc' = "returned"
  /\ UNCHANGED << cpuVars, asmVars, busVars, running, devIdx, polled, asserted, flagsAfterStep, listener >>

\* The TCP threads while run is in its loop.
RunThreadAccept ==
  /\ runPc \in {"loop", "sweep"}
  /\ \E i \in 1..Len(bus.devices) : TcpAccept(i)
  /\ UNCHANGED << busLast, busOps, cpuVars, asmVars, hostVars >>

RunThreadRead ==
  /\ runPc \in {"loop", "sweep"}
  /\ \E i \in 1..Len(bus.devices) : TcpRead(i)
  /\ UNCHANGED << busLast, busOps, cpuVars, asmVars, hostVars >>

HostLoop == RunStep \/ RunPoll \/ RunSweepDone \/ RunReturn

NextRun ==
  \/ RunLoadProgram \/ RunRegisterDevice \/ RunStart
  \/ RunStep \/ RunPoll \/ RunSweepDone \/ RunReturn
  \/ RunThreadAccept \/ RunThreadRead

\* The host's thread is scheduled as long as run has something to do.
SpecRun == Init /\ [][NextRun]_vars /\ WF_vars(HostLoop)

Next == LoadRom \/ Step \/ Reset

Spec == Init /\ [][Next]_vars

(***************************************************************************)
(* Programs that load two registers, apply one ALU instruction to them and *)
(* then jump on a condition: the Machine stepping through each of them.    *)
(***************************************************************************)
\* The operand values.
AluVals == { 0, 1, 2, 32767, 32768, 65535 }
\* The number of the opcode named op, as impl From<u8> for Opcode reads it.
OpcodeNumber(op) == CHOOSE n \in 0..(Len(OpcodeNames) - 1) : OpcodeNames[n + 1] = op
\* op Rd, Rs (16-bit registers)
Alu_rr(op, d, s) == << OpcodeNumber(op) * 8, d * 16 + s >>
\* op Rd, #v (16-bit literal)
Alu_imm(op, d, v) == << OpcodeNumber(op) * 8 + 1, d, LowByte(v), HighByte(v) >>
\* op Rd
Unary(op, d) == << OpcodeNumber(op) * 8, d >>
\* JPC cond, #v: the condition is the first operand byte
JPC_imm(cond, v) == << OpcodeNumber("JPC") * 8 + 1, cond, LowByte(v), HighByte(v) >>
\* The addresses the conditional jumps of the programs aim at.
JumpTargets == { 64 }
\* The two-operand opcodes of the programs.
BinaryOps == { "ADD", "SUB", "MUL", "DIV", "MOD", "AND", "OR", "XOR", "CMP" }
\* The one-operand opcodes of the programs.
UnaryOps == { "INC", "DEC", "NOT" }
\* The conditions of JPC: Zero, NotZero, Negative, NotNegative, Overflow, NotOverflow
JumpConds == 0..5

AluInstrs(y) ==
  { Alu_rr(op, 0, 1) : op \in BinaryOps }
    \cup { Alu_imm(op, 0, y) : op \in BinaryOps }
    \cup { Unary(op, 0) : op \in UnaryOps }

\* JMP Rs: the register is the operand byte
JMP_r(s) == << OpcodeNumber("JMP") * 8, s >>
\* The registers the programs jump through.
JumpRegs == { 0, 1, 2, 13, SP }
\* Programs that load R0 and Rs with different addresses and jump through Rs.
JumpPrograms ==
  { MOV_imm(0, x) \o MOV_imm(s, y) \o JMP_r(s) :
      x \in { 64 }, y \in { 64, 80 }, s \in JumpRegs }

AluPrograms ==
  UNION { { MOV_imm(0, x) \o MOV_imm(1, y) \o i \o JPC_imm(cond, t) :
              i \in AluInstrs(y), cond \in JumpConds, t \in JumpTargets } :
          x \in AluVals, y \in AluVals }

\* One of the programs is loaded into the ROM of a new Machine.
LoadAlu ==
  /\ cpuSt = "ok"
  /\ last.kind = "none"
  /\ mem = EmptyMem
  /\ \E p \in AluPrograms \cup JumpPrograms :
       /\ mem' = Memory_load_rom(mem, p)
       /\ registers' = [registers EXCEPT ![PC] = ROM_BASE]
  /\ UNCHANGED << flags, cpuSt, overflowChecks, asmVars, steps, last, prev >>
  /\ UNCHANGED << busVars, hostVars >>

NextAlu == LoadAlu \/ Step

SpecAlu == Init /\ [][NextAlu]_vars

(***************************************************************************)
(* Operations on the flat Memory (src/memory.rs) by its client.            *)
(***************************************************************************)
\* Bound on the number of Memory operations of one behaviour.
MaxMemOps == 3
\* Addresses the Memory is accessed at: the ends of the regions and RAM.
MemAddrs ==
  { ROM_END, RAM_BASE, RAM_BASE + 1, RAM_END - 1, RAM_END, STACK_END, MMIO_END }
\* Values written.
MemVals == { 513, 65535 }

MemOp(op, addr, val, ok, v) ==
  /\ cpuSt' = IF ok THEN cpuSt ELSE "panic"
  /\ last' = [kind |-> op, addr |-> addr, val |-> val, ok |-> ok, v |-> v, pre |-> mem]
  /\ prev' = last
  /\ steps' = steps + 1
  /\ UNCHANGED << registers, flags, overflowChecks, asmVars, busVars, hostVars >>

\* Memory::load_rom
MemLoadRom ==
  /\ mem = EmptyMem /\ last.kind = "none"
  /\ \E p \in RunPrograms : mem' = Memory_load_rom(mem, p)
  /\ UNCHANGED << registers, flags, cpuSt, overflowChecks, asmVars, steps, last, prev,
                  busVars, hostVars >>

MemRead8 ==
  /\ cpuSt = "ok" /\ steps < MaxMemOps
  /\ \E addr \in MemAddrs :
       /\ mem' = mem
       /\ MemOp("read_u8", addr, 0, TRUE, Memory_read_u8(mem, addr))

MemRead16 ==
  /\ cpuSt = "ok" /\ steps < MaxMemOps
  /\ \E addr \in MemAddrs :
       LET r == Memory_read_u16(mem, addr, overflowChecks)
       IN /\ mem' = mem
          /\ MemOp("read_u16", addr, 0, r.ok, r.v)

MemWrite8 ==
  /\ cpuSt = "ok" /\ steps < MaxMemOps
  /\ \E addr \in MemAddrs, val \in MemVals :
       LET w == Memory_write_u8(mem, addr, LowByte(val))
       IN /\ mem' = w.m
          /\ MemOp("write_u8", addr, LowByte(val), w.ok, 0)

MemWrite16 ==
  /\ cpuSt = "ok" /\ steps < MaxMemOps
  /\ \E addr \in MemAddrs, val \in MemVals :
       LET w == Memory_write_u16(mem, addr, val, overflowChecks)
       IN /\ mem' = w.m
          /\ MemOp("write_u16", addr, val, w.ok, 0)

NextMem == MemLoadRom \/ MemRead8 \/ MemRead16 \/ MemWrite8 \/ MemWrite16

SpecMem == Init /\ [][NextMem]_vars

(***************************************************************************)
(* The assembler at work (src/main.rs): assemble_string on a source text,  *)
(* statement by statement in each pass, then Cupana::load_program of the   *)
(* output and the steps of the CPU on it.                                  *)
(***************************************************************************)
\* Bound on the number of statements of a source text.
MaxStmts == 2

\* The statements of the source texts: every mnemonic in each of its operand
\* forms, a label, an alias, the directives.
SrcStmts ==
  { StmtInstruction(mn, << >>) : mn \in {"NOP", "HLT", "RSB", "CLI", "SEI", "RSI"} }
  \cup { StmtInstruction(mn, << Register(1) >>) :
           mn \in {"PHR", "PLR", "INC", "DEC", "NOT"} }
  \cup { StmtInstruction("MOV", << d, s >>) :
           d \in { Register(1), RegisterIndirect(1), Literal(36864) },
           s \in { Register(2), Literal(4660) } }
  \cup { StmtInstruction("MOV", << Register(1), s >>) :
           s \in { RegisterIndirect(2), Alias("a"), LabelRef("top") } }
  \cup { StmtInstruction(mn, << Register(1), s >>) :
           mn \in {"ADD", "SUB", "MUL", "DIV", "MOD", "AND", "OR", "XOR", "CMP"},
           s \in { Register(2), Literal(5) } }
  \cup { StmtInstruction(mn, << t >>) :
           mn \in {"JMP", "JZ", "JNZ", "JN", "JNN", "JC", "JNC"},
           t \in { Literal(64), Register(2) } }
  \cup { StmtInstruction("JSB", << t >>) : t \in { Literal(64), LabelRef("top") } }
  \cup { StmtInstruction("INC", << Register(16) >>),
         StmtInstruction("JSB", << Register(2) >>) }
  \cup { StmtInstruction("ADD", << Register(16), Register(2) >>),
         StmtInstruction("CMP", << Register(1), Register(16) >>),
         StmtInstruction("MOV", << Register(16), Register(2) >>),
         StmtInstruction("MOV", << Register(1), RegisterIndirect(16) >>),
         StmtInstruction("JMP", << Register(16) >>) }
  \cup { StmtLabel("top"), StmtAliasDeclaration("a", Literal(7)) }
  \cup { StmtDirective("word", v) :
           v \in { Literal(513), LabelRef("top"), LabelRef("nowhere"),
                   CharString(<< 65, 66 >>) } }
  \cup { StmtDirective("WORD", Literal(513)), StmtDirective("byte", Literal(1)),
         StmtDirective("org", Literal(65535)) }

\* The source texts: up to MaxStmts statements.
Sources == UNION { [1..n -> SrcStmts] : n \in 0..MaxStmts }

\* assemble_string up to the call of first_pass: Parser::parse of the source
AsmParse ==
  /\ asm.at = "new"
  /\ \E src \in Sources :
       LET p == Parser_parse(src)
       IN asm' = [asm EXCEPT !.at = "first_pass", !.src = src,
                             !.statements = p.statements, !.aliases = p.aliases,
                             !.i = 1]
  /\ UNCHANGED << cpuVars, busVars, hostVars >>

\* address += n on the u16 of first_pass
AddU16(a, n, checks) ==
  IF a + n < U16 THEN [ok |-> TRUE, v |-> a + n]
  ELSE [ok |-> ~checks, v |-> Wrap16(a + n)]

\* One turn of the loop of Assembler::first_pass, or its return after the
\* last statement.
FirstPassStep ==
  /\ asm.at = "first_pass"
  /\ IF asm.i > Len(asm.statements)
     THEN asm' = [asm EXCEPT !.at = "second_pass", !.i = 1]
     ELSE LET st == asm.statements[asm.i]
              advance(n) ==
                LET a == AddU16(asm.address, n, overflowChecks)
                IN IF a.ok THEN [asm EXCEPT !.address = a.v, !.i = @ + 1]
                   ELSE [asm EXCEPT !.at = "panic"]
          IN asm' =
               CASE st.k = "Label" ->
                      IF MapHas(asm.labels, st.name)
                      THEN [asm EXCEPT !.at = "error", !.err = "Duplicate label definition"]
                      ELSE [asm EXCEPT !.labels = MapInsert(@, st.name, asm.address),
                                       !.i = @ + 1]
                 [] st.k = "Directive" /\ to_lowercase[st.name] = "org" ->
                      IF st.ops[1].t = "Literal"
                      THEN [asm EXCEPT !.address = st.ops[1].v, !.i = @ + 1]
                      ELSE [asm EXCEPT !.i = @ + 1]
                 [] st.k = "Directive" /\ to_lowercase[st.name] = "word" ->
                      advance(WordSize(st.ops[1]))
                 [] st.k = "Instruction" ->
                      LET size == get_instruction_size(st, asm.aliases)
                      IN IF size.ok THEN advance(size.n)
                         ELSE [asm EXCEPT !.at = "error", !.err = "get_instruction_size"]
                 [] OTHER -> [asm EXCEPT !.i = @ + 1]
  /\ UNCHANGED << cpuVars, busVars, hostVars >>

\* Assembler::emit_byte for each of the bytes: an index past the output
\* array panics, after the bytes before it are stored
EmitBytes(a, bytes) ==
  LET room == IF a.current_address >= OUTPUT_SIZE THEN 0
              ELSE OUTPUT_SIZE - a.current_address
      n == IF Len(bytes) <= room THEN Len(bytes) ELSE room
      stored == [a EXCEPT !.output = LoadBytes(@, a.current_address, SubSeq(bytes, 1, n)),
                          !.current_address = @ + n]
  IN IF n < Len(bytes) THEN [stored EXCEPT !.at = "panic"] ELSE stored

\* One turn of the loop of Assembler::second_pass, or its return after the
\* last statement.
SecondPassStep ==
  /\ asm.at = "second_pass"
  /\ IF asm.i > Len(asm.statements)
     THEN asm' = [asm EXCEPT !.at = "done"]
     ELSE LET st == asm.statements[asm.i]
              a0 == [asm EXCEPT !.stmt_start = asm.current_address, !.i = @ + 1]
          IN asm' =
               CASE st.k = "Instruction" ->
                      LET g == generate_instruction(st, asm.aliases, asm.labels)
                          e == EmitBytes(a0, g.bytes)
                      IN IF e.at = "second_pass" /\ ~g.ok
                         THEN [e EXCEPT !.at = "error", !.err = "generate_instruction"]
                         ELSE e
                 [] st.k = "Directive" /\ to_lowercase[st.name] = "org" ->
                      IF st.ops[1].t = "Literal"
                      THEN [a0 EXCEPT !.current_address = st.ops[1].v]
                      ELSE a0
                 [] st.k = "Directive" /\ to_lowercase[st.name] = "word" ->
                      EmitBytes(a0, WordBytes(st.ops[1], asm.labels))
                 [] st.k = "Label" ->
                      [a0 EXCEPT !.cursors = MapInsert(@, st.name, asm.current_address)]
                 [] OTHER -> a0
  /\ UNCHANGED << cpuVars, busVars, hostVars >>

\* main: Cupana::load_program of the 32 KiB the assembler returned
AsmLoad ==
  /\ asm.at = "done"
  /\ cpuSt = "ok" /\ last.kind = "none"
  /\ asm' = [asm EXCEPT !.at = "loaded"]
  /\ mem' = asm.output
  /\ registers' = [registers EXCEPT ![PC] = ROM_BASE]
  /\ UNCHANGED << flags, cpuSt, overflowChecks, steps, last, prev >>
  /\ UNCHANGED << busVars, hostVars >>

\* One step of the CPU on the assembled program.
AsmStep == asm.at = "loaded" /\ Step

NextAsm == AsmParse \/ FirstPassStep \/ SecondPassStep \/ AsmLoad \/ AsmStep

SpecAsm == Init /\ [][NextAsm]_vars

(***************************************************************************)
(* The assembler on alias chains: sources that declare the aliases         *)
(* a1 -> a2 -> ... -> an -> operand and use a1 in one instruction.         *)
(***************************************************************************)
\* Bound on the number of alias declarations of a chain.
MaxChain == 12

AliasNames ==
  << "a1", "a2", "a3", "a4", "a5", "a6", "a7", "a8", "a9", "a10", "a11", "a12",
     "a13", "a14" >>

\* The declarations of a chain of n aliases that ends in the operand end.
Chain(n, end) ==
  [i \in 1..n |->
     StmtAliasDeclaration(AliasNames[i], IF i < n THEN Alias(AliasNames[i + 1]) ELSE end)]

\* The instructions that use the first alias of the chain.
ChainUses ==
  { StmtInstruction("JMP", << Alias("a1") >>),
    StmtInstruction("INC", << Alias("a1") >>),
    StmtInstruction("MOV", << Register(2), Alias("a1") >>) }

\* The chains: of 1..MaxChain aliases, ending in a register, a literal, the
\* first alias again (a cycle) or an undeclared alias.
ChainSources ==
  { Chain(n, end) \o << use >> :
      n \in 1..MaxChain,
      end \in { Register(1), Literal(5), Alias("a1"), Alias("none") },
      use \in ChainUses }

\* assemble_string up to the call of first_pass, on a chain source
AliasParse ==
  /\ asm.at = "new"
  /\ \E src \in ChainSources :
       LET p == Parser_parse(src)
       IN asm' = [asm EXCEPT !.at = "first_pass", !.src = src,
                             !.statements = p.statements, !.aliases = p.aliases,
                             !.i = 1]
  /\ UNCHANGED << cpuVars, busVars, hostVars >>

NextAlias == AliasParse \/ FirstPassStep \/ SecondPassStep

SpecAlias == Init /\ [][NextAlias]_vars

(***************************************************************************)
(* The Device trait called on one device (src/devices): read_u8, write_u8  *)
(* and check_interrupt of a console or a TCP serial device, while the TCP  *)
(* thread of a serial device accepts clients and reads from them.  The     *)
(* device is bus.devices[1]; busLast keeps the call, the device before and *)
(* after it and what it returned.                                          *)
(***************************************************************************)
\* Bound on the number of calls of the device.
MaxDevOps == 3
\* Register offsets the device is called with: its registers and one beyond.
DevOffsets == 0..3
\* Bytes written to the device.
DevVals == { RX_INTERRUPT_ENABLE_BIT, TX_INTERRUPT_ENABLE_BIT,
             CONNECT_INTERRUPT_ENABLE_BIT }
\* One read of the TCP thread into its buffer of 1024 bytes: two bytes, or
\* one byte more than the input buffer of the device holds.
LongChunk == [i \in 1..(SERIAL_RX_CAPACITY + 1) |-> 67]
DevChunks == { << 65, 66 >>, LongChunk }

RECURSIVE Polled(_, _)
\* The device after k calls of check_interrupt.
Polled(dev, k) == IF k = 0 THEN dev ELSE Polled(check_interrupt(dev).dev, k - 1)

\* The devices called: a new console, a console one tick before its first
\* simulated input, one tick before the input that fills its buffer and one
\* tick before the input that finds the buffer full, a new TCP serial device.
DevDevices ==
  { Polled(CupanaConsole_new(MMIO_BASE), k) : k \in { 0, CONSOLE_FIRST_TICKS - 1 } }
    \cup { [CupanaConsole_new(MMIO_BASE) EXCEPT
              !.input_buffer = [i \in 1..n |-> CONSOLE_SIMULATED_CHAR],
              !.ticks_until_input_event = 1] :
             n \in { CONSOLE_RX_CAPACITY - 1, CONSOLE_RX_CAPACITY } }
    \cup { CupanaTcpSerial_new(MMIO_BASE) }

DevOp(op, off, val, io, dev, res) ==
  LET b == [bus EXCEPT !.devices[1] = dev]
  IN /\ bus' = b
     /\ busLast' = [kind |-> op, addr |-> off, val |-> val, io |-> io,
                    res |-> res, pre |-> bus, post |-> b]
     /\ busOps' = busOps + 1
     /\ UNCHANGED << cpuVars, asmVars, hostVars >>

\* CupanaConsole::new, CupanaTcpSerial::new
DevCreate ==
  /\ bus.devices = << >>
  /\ \E dev \in DevDevices : bus' = add_device(bus, dev)
  /\ UNCHANGED << busLast, busOps, cpuVars, asmVars, hostVars >>

\* Device::read_u8
DevRead ==
  /\ bus.devices # << >> /\ busOps < MaxDevOps
  /\ \E off \in DevOffsets :
       LET r == Device_read_u8(bus.devices[1], off)
       IN DevOp("read_u8", off, 0, "ok", r.dev, r.res)

\* Device::write_u8
DevWrite ==
  /\ bus.devices # << >> /\ busOps < MaxDevOps
  /\ \E off \in DevOffsets, val \in DevVals :
     \E io \in IF off = DATA_REGISTER_OFFSET THEN { "ok", "error" } ELSE { "ok" } :
       LET r == Device_write_u8(bus.devices[1], off, val, io)
       IN DevOp("write_u8", off, val, io, r.dev, r.res)

\* Device::check_interrupt
DevPoll ==
  /\ bus.devices # << >> /\ busOps < MaxDevOps
  /\ LET r == check_interrupt(bus.devices[1])
     IN DevOp("check_interrupt", 0, 0, "ok", r.dev, Ok(IF r.irq THEN 1 ELSE 0))

\* The TCP thread accepts a client (serial.rs:68-86).
DevThreadAccept ==
  /\ bus.devices # << >> /\ busOps < MaxDevOps
  /\ TcpAccept(1)
  /\ UNCHANGED << busLast, busOps, cpuVars, asmVars, hostVars >>

\* The TCP thread reads data, or the end of the stream (serial.rs:89-115).
DevThreadRead ==
  /\ bus.devices # << >> /\ busOps < MaxDevOps
  /\ bus.devices[1].thread = "reading"
  /\ Len(bus.devices[1].channel) < MaxChannel
  /\ \/ \E data \in DevChunks :
          bus' = [bus EXCEPT !.devices[1].channel =
                    Append(@, [type |-> "DataReceived", data |-> data])]
     \/ bus' = [bus EXCEPT !.devices[1].thread = "accepting",
                           !.devices[1].channel =
                              Append(@, [type |-> "ClientDisconnected"])]
  /\ UNCHANGED << busLast, busOps, cpuVars, asmVars, hostVars >>

NextDev ==
  \/ DevCreate \/ DevRead \/ DevWrite \/ DevPoll
  \/ DevThreadAccept \/ DevThreadRead

SpecDev == Init /\ [][NextDev]_vars

(***************************************************************************)
(* The listener thread of a TCP serial device and the drop of the device   *)
(* (src/devices/serial.rs:63-129, 291-296).  The device owns the Receiver  *)
(* of the channel; once it is dropped every send of the thread fails.      *)
(* listener.failed tells that a send has failed, listener.reads counts the *)
(* calls of stream.read and listener.waits the returns to                  *)
(* listener.incoming() after that.  The Error messages of the thread,      *)
(* which the device only prints, are left out.                             *)
(***************************************************************************)
\* Outcomes of one stream.read of the thread.
StreamReads == { "Ok0", "OkN", "WouldBlock", "Err" }

\* Sender::send of the thread: it fails once the Receiver is dropped.
SendFails == listener.receiver = "dropped"

\* impl Drop for CupanaTcpSerial: the fields of the device are dropped, the
\* Receiver and the messages not yet received among them; the thread is not
\* signalled.
ReceiverDrop ==
  /\ bus.devices # << >> /\ bus.devices[1].thread # "none"
  /\ listener.receiver = "held"
  /\ listener' = [listener EXCEPT !.receiver = "dropped"]
  /\ bus' = [bus EXCEPT !.devices[1].channel = << >>]
  /\ UNCHANGED << busLast, busOps, cpuVars, asmVars,
                  running, runPc, devIdx, polled, asserted, flagsAfterStep >>

\* listener.incoming() yields a client: the send of ClientConnected, whose
\* failure leaves the loop over the connections (serial.rs:68-86).
ListenerAccept ==
  /\ bus.devices # << >> /\ bus.devices[1].thread = "accepting"
  /\ IF SendFails
     THEN /\ bus' = [bus EXCEPT !.devices[1].thread = "terminated"]
          /\ listener' = [listener EXCEPT !.failed = TRUE]
     ELSE /\ Len(bus.devices[1].channel) < MaxChannel
          /\ bus' = [bus EXCEPT !.devices[1].thread = "reading",
                                !.devices[1].channel =
                                   Append(@, [type |-> "ClientConnected"])]
          /\ UNCHANGED listener
  /\ UNCHANGED << busLast, busOps, cpuVars, asmVars,
                  running, runPc, devIdx, polled, asserted, flagsAfterStep >>

\* One stream.read of the loop over the reads and what follows it up to the
\* next blocking call (serial.rs:88-122): a break leaves the loop over the
\* reads only, and the thread is back at listener.incoming().
ListenerRead ==
  /\ bus.devices # << >> /\ bus.devices[1].thread = "reading"
  /\ SendFails \/ Len(bus.devices[1].channel) < MaxChannel
  /\ \E r \in StreamReads, data \in DevChunks :
       LET msg == IF r = "OkN" THEN [type |-> "DataReceived", data |-> data]
                  ELSE [type |-> "ClientDisconnected"]
           sends == r # "WouldBlock"
           failed == listener.failed \/ (sends /\ SendFails)
           breaks == r \in { "Ok0", "Err" } \/ (r = "OkN" /\ SendFails)
       IN /\ bus' = [bus EXCEPT
                       !.devices[1].channel =
                          IF sends /\ ~SendFails THEN Append(@, msg) ELSE @,
                       !.devices[1].thread =
                          IF breaks THEN "accepting" ELSE "reading"]
          /\ listener' = [listener EXCEPT
                            !.failed = failed,
                            !.reads = IF listener.failed THEN @ + 1 ELSE @,
                            !.waits = IF breaks /\ failed THEN @ + 1 ELSE @]
  /\ UNCHANGED << busLast, busOps, cpuVars, asmVars,
                  running, runPc, devIdx, polled, asserted, flagsAfterStep >>

\* Device::check_interrupt of the device that is not dropped.
ListenerPoll == listener.receiver = "held" /\ DevPoll

\* Device::read_u8 of the device that is not dropped.
ListenerDeviceRead == listener.receiver = "held" /\ DevRead

NextDrop ==
  \/ DevCreate \/ ListenerPoll \/ ListenerDeviceRead
  \/ ReceiverDrop \/ ListenerAccept \/ ListenerRead

SpecDrop == Init /\ [][NextDrop]_vars

(***************************************************************************)
(* Lexer and Parser on tokens (src/casm/lexer.rs, src/casm/parser.rs).     *)
(* The input is the sequence of results the logos lexer yields for a       *)
(* source text: Ok(token), or Err for a character that starts no token and *)
(* for a literal whose callback returns None (a value above 0xFFFF).       *)
(***************************************************************************)
Tok(t, v) == [t |-> t, v |-> v]
\* Option::None of current_token
NoToken == Tok("None", 0)
LexOk(tk) == [ok |-> TRUE, tk |-> tk, why |-> ""]
LexErr(why) == [ok |-> FALSE, tk |-> NoToken, why |-> why]
\* The mnemonic tokens of the inputs.
MnemonicTokens == {"NOP", "HLT", "MOV", "INC"}

\* Lexer::advance: an Err of the logos lexer is printed and current_token
\* keeps the token it had
Lexer_advance(lx) ==
  IF lx.rest = << >> THEN [lx EXCEPT !.current_token = NoToken]
  ELSE IF Head(lx.rest).ok
       THEN [rest |-> Tail(lx.rest), current_token |-> Head(lx.rest).tk]
       ELSE [lx EXCEPT !.rest = Tail(@)]

\* Lexer::new
Lexer_new(input) == Lexer_advance([rest |-> input, current_token |-> NoToken])

\* Parser::parse_operand
parse_operand(lx) ==
  CASE lx.current_token.t = "Register" ->
         [ok |-> TRUE, op |-> Register(lx.current_token.v), lx |-> Lexer_advance(lx)]
    [] lx.current_token.t = "DecimalLiteral" ->
         [ok |-> TRUE, op |-> Literal(lx.current_token.v), lx |-> Lexer_advance(lx)]
    [] OTHER -> [ok |-> FALSE, op |-> Literal(0), lx |-> lx]

\* Parser::parse_instruction on the token at the lexer
ParseInstructionAt(lx) ==
  LET mn == lx.current_token.t
      l1 == Lexer_advance(lx)
      o1 == parse_operand(l1)
      o2 == parse_operand(o1.lx)
      made(ops) == [StmtInstruction(mn, ops) EXCEPT !.mn = parse_instruction[mn]]
  IN CASE mn \in {"NOP", "HLT"} -> [ok |-> TRUE, st |-> made(<< >>), lx |-> l1]
       [] mn = "INC" ->
            IF o1.ok THEN [ok |-> TRUE, st |-> made(<< o1.op >>), lx |-> o1.lx]
            ELSE [ok |-> FALSE, st |-> StmtLabel(""), lx |-> o1.lx]
       [] mn = "MOV" ->
            IF o1.ok /\ o2.ok
            THEN [ok |-> TRUE, st |-> made(<< o1.op, o2.op >>), lx |-> o2.lx]
            ELSE [ok |-> FALSE, st |-> StmtLabel(""), lx |-> o1.lx]
       [] OTHER -> [ok |-> FALSE, st |-> StmtLabel(""), lx |-> lx]

RECURSIVE ParseLoop(_, _)
\* The loop of Parser::parse, for inputs of mnemonics, registers, literals and
\* newlines
ParseLoop(lx, statements) ==
  IF lx.current_token = NoToken THEN [ok |-> TRUE, statements |-> statements]
  ELSE IF lx.current_token.t = "Newline" THEN ParseLoop(Lexer_advance(lx), statements)
  ELSE LET r == ParseInstructionAt(lx)
       IN IF r.ok THEN ParseLoop(r.lx, Append(statements, r.st))
          ELSE [ok |-> FALSE, statements |-> statements]

\* Parser::new and Parser::parse
Parser_parse_input(input) == ParseLoop(Lexer_new(input), << >>)

\* Bound on the number of lexer results of an input.
MaxTokens == 3
\* What the lexer yields for one piece of a source text: "@" and "$70000" are
\* its errors.
Lexemes ==
  { LexOk(Tok(mn, 0)) : mn \in MnemonicTokens }
    \cup { LexOk(Tok("Register", 1)), LexOk(Tok("Register", 2)),
           LexOk(Tok("DecimalLiteral", 5)), LexOk(Tok("Newline", 0)),
           LexErr("character"), LexErr("literal") }
Inputs == UNION { [1..n -> Lexemes] : n \in 0..MaxTokens }

\* assemble_string up to the call of first_pass, on the lexer's results
LexParse ==
  /\ asm.at = "new"
  /\ \E input \in Inputs :
       LET p == Parser_parse_input(input)
       IN asm' = IF p.ok
                 THEN [asm EXCEPT !.at = "first_pass", !.src = input,
                                  !.statements = p.statements, !.i = 1]
                 ELSE [asm EXCEPT !.at = "error", !.err = "parse", !.src = input]
  /\ UNCHANGED << cpuVars, busVars, hostVars >>

NextLex == LexParse \/ FirstPassStep \/ SecondPassStep

SpecLex == Init /\ [][NextLex]_vars

(***************************************************************************)
(* The line assembler (src/assembler/parser.rs, src/assembler/driver.rs):  *)
(* parse_line on the tokens of one line, and the two loops of              *)
(* assemble_source over the lines.  The assembler record holds the lines   *)
(* in src, the symbol table in labels, current_address of the first loop   *)
(* in address and of the second loop in current_address, and in cursors    *)
(* the address each jump of the second loop resolved its label to.         *)
(***************************************************************************)
LTok(t, n, v) == [t |-> t, n |-> n, v |-> v]
LabelIdentifier(name) == LTok("LabelIdentifier", name, 0)
Colon == LTok("Colon", "", 0)
Mnemonic(name) == LTok("Mnemonic", name, 0)
DotDirective(name) == LTok("DotDirective", name, 0)
LiteralToken(v) == LTok("Literal", "", v)

\* enum ParsedLine, with the error of parse_line as one more kind
ParsedLine(kind, name, mn, target) == [kind |-> kind, name |-> name, mn |-> mn, target |-> target]
ParsedEmpty == ParsedLine("Empty", "", "", Literal(0))
ParserError(e) == ParsedLine("Err", e, "", Literal(0))

\* parser.rs parse_instruction, for the mnemonics NOP and JMP
Line_parse_instruction(mnemonic, tokens) ==
  CASE mnemonic = "NOP" ->
         IF tokens = << >> THEN ParsedLine("Instruction", "", "NOP", Literal(0))
         ELSE ParserError("TrailingTokens")
    [] mnemonic = "JMP" ->
         IF tokens = << >> THEN ParserError("MissingOperand")
         ELSE IF Len(tokens) > 1 THEN ParserError("TrailingTokens")
         ELSE IF tokens[1].t \in {"LabelIdentifier", "Mnemonic"}
              THEN ParsedLine("Instruction", "", "JMP", LabelRef(tokens[1].n))
         ELSE IF tokens[1].t = "Literal"
              THEN ParsedLine("Instruction", "", "JMP", Literal(tokens[1].v))
         ELSE ParserError("InvalidOperandType")
    [] OTHER -> ParserError("UnknownInstruction")

\* parser.rs parse_line: a label that something follows on its line is
\* consumed with its colon, and the line is parsed from the token after them
parse_line(tokens) ==
  IF tokens = << >> THEN ParsedEmpty
  ELSE LET labelled == /\ tokens[1].t = "LabelIdentifier"
                       /\ Len(tokens) >= 2 /\ tokens[2].t = "Colon"
           it == IF labelled THEN SubSeq(tokens, 3, Len(tokens)) ELSE tokens
       IN IF labelled /\ it = << >>
          THEN ParsedLine("LabelDefinition", tokens[1].n, "", Literal(0))
          ELSE CASE it[1].t = "DotDirective" ->
                      IF Len(it) = 2 /\ it[2].t = "Literal"
                      THEN ParsedLine("Directive", it[1].n, "", Literal(it[2].v))
                      ELSE ParserError("Directive")
                 [] it[1].t \in {"Mnemonic", "LabelIdentifier"} ->
                      Line_parse_instruction(it[1].n, Tail(it))
                 [] OTHER -> ParserError("UnexpectedToken")

\* driver.rs calculate_instruction_size: words, doubled
calculate_instruction_size(instr) == IF instr.mn = "NOP" THEN 2 ELSE 4

\* Bound on the number of lines of a source text.
MaxLines == 3
\* The lines of the source texts.
SourceLines ==
  { << LabelIdentifier(n), Colon >> : n \in {"START", "END"} }
    \cup { << LabelIdentifier(n), Colon, Mnemonic("NOP") >> : n \in {"START", "END"} }
    \cup { << LabelIdentifier("START"), Colon, Mnemonic("JMP"), LabelIdentifier("START") >>,
           << LabelIdentifier("END"), Colon, DotDirective(".ORG"), LiteralToken(8) >> }
    \cup { << Mnemonic("NOP") >>, << Mnemonic("JMP"), LiteralToken(8) >>,
           << Mnemonic("NOP"), Mnemonic("NOP") >>, << Colon >> }
    \cup { << Mnemonic("JMP"), LabelIdentifier(n) >> : n \in {"START", "END"} }
LineSources == UNION { [1..n -> SourceLines] : n \in 1..MaxLines }

\* assemble_source is called on a source text
LinesRead ==
  /\ asm.at = "new"
  /\ \E src \in LineSources :
       asm' = [asm EXCEPT !.at = "first_pass", !.src = src, !.i = 1]
  /\ UNCHANGED << cpuVars, busVars, hostVars >>

\* One turn of the first loop of assemble_source (driver.rs:68-129), or the
\* start of the second loop after the last line.
LinesPass1 ==
  /\ asm.at = "first_pass"
  /\ IF asm.i > Len(asm.src)
     THEN asm' = [asm EXCEPT !.at = "second_pass", !.i = 1]
     ELSE LET parsed_line == parse_line(asm.src[asm.i])
          IN asm' =
               CASE parsed_line.kind = "Err" ->
                      [asm EXCEPT !.at = "error", !.err = parsed_line.name]
                 [] parsed_line.kind = "LabelDefinition" ->
                      IF MapHas(asm.labels, parsed_line.name)
                      THEN [asm EXCEPT !.at = "error", !.err = "Duplicate label"]
                      ELSE [asm EXCEPT !.labels = MapInsert(@, parsed_line.name, asm.address),
                                       !.i = @ + 1]
                 [] parsed_line.kind = "Instruction" ->
                      [asm EXCEPT !.address = @ + calculate_instruction_size(parsed_line),
                                  !.i = @ + 1]
                 [] parsed_line.kind = "Directive" /\ parsed_line.name = ".ORG" ->
                      [asm EXCEPT !.address = parsed_line.target.v, !.i = @ + 1]
                 [] OTHER -> [asm EXCEPT !.i = @ + 1]
  /\ UNCHANGED << cpuVars, busVars, hostVars >>

\* One turn of the second loop of assemble_source (driver.rs:131-199), or its
\* return after the last line.  stmt_start is the length of machine_code.
LinesPass2 ==
  /\ asm.at = "second_pass"
  /\ IF asm.i > Len(asm.src)
     THEN asm' = [asm EXCEPT !.at = "done"]
     ELSE LET parsed_line == parse_line(asm.src[asm.i])
              words(n) == [asm EXCEPT !.current_address = @ + n, !.stmt_start = @ + n,
                                      !.i = @ + 1]
              target == parsed_line.target
          IN asm' =
               CASE parsed_line.kind = "Err" ->
                      [asm EXCEPT !.at = "error", !.err = parsed_line.name]
                 [] parsed_line.kind = "Instruction" /\ parsed_line.mn = "NOP" -> words(1)
                 [] parsed_line.kind = "Instruction" /\ parsed_line.mn = "JMP" ->
                      IF target.t = "LabelRef"
                      THEN IF MapHas(asm.labels, target.n)
                           THEN [words(2) EXCEPT !.cursors =
                                   MapInsert(@, asm.i, MapGet(asm.labels, target.n))]
                           ELSE [asm EXCEPT !.at = "error", !.err = "MissingLabel"]
                      ELSE words(2)
                 [] parsed_line.kind = "Directive" /\ parsed_line.name = ".ORG" ->
                      IF target.v < asm.current_address /\ asm.stmt_start # 0
                      THEN [asm EXCEPT !.at = "error", !.err = ".ORG"]
                      ELSE [asm EXCEPT
                              !.stmt_start = IF target.v > asm.current_address
                                             THEN @ + (target.v - asm.current_address)
                                             ELSE @,
                              !.current_address = target.v, !.i = @ + 1]
                 [] OTHER -> [asm EXCEPT !.i = @ + 1]
  /\ UNCHANGED << cpuVars, busVars, hostVars >>

NextLines == LinesRead \/ LinesPass1 \/ LinesPass2

SpecLines == Init /\ [][NextLines]_vars

(***************************************************************************)
(* Properties.                                                             *)
(***************************************************************************)
InRom(a) == a >= ROM_BASE /\ a <= ROM_END

\* C1: a write_u8 or write_u16 of the memory bus at a ROM address
\* (0x0000..=0x7FFF) fails with WriteNotPermitted and leaves every ROM byte as
\* it was, whatever the bus operations before it were.
C1_RomWriteRejected ==
  (busLast.kind \in {"write_u8", "write_u16"} /\ InRom(busLast.addr))
    => /\ busLast.res.tag = "err"
       /\ busLast.res.e = "WriteNotPermitted"
       /\ bus.rom = busLast.pre.rom

\* C1: a second bus operation was a word write at the last ROM address, on a
\* bus whose ROM holds an image
C1_Witness ==
  /\ busOps = MaxBusOps
  /\ busLast.kind = "write_u16" /\ busLast.addr = ROM_END /\ busLast.val # 0
  /\ bus.rom # EmptyMem
  /\ busLast.res.tag = "err"

\* The last operation on the Machine was a step that returned, of opcode op.
LastStep(op) == last.kind = "step" /\ last.st = "ok" /\ last.opcode = op
\* The operation before it was a step that returned, of opcode op.
PrevStep(op) == prev.kind = "step" /\ prev.st = "ok" /\ prev.opcode = op
\* The word the memory holds at address a, its high byte at a + 1 modulo 2^16.
WordAt(m, a) == Word(MemGet(m, a), MemGet(m, Wrap16(a + 1)))
\* An interrupt is pending and not masked in the flags f.
IrqDue(f) == get_flag(f, FlagInterruptPending) /\ ~get_flag(f, FlagInterruptEnabled)

\* C2: a step taken with the interrupt-pending flag set and the interrupt mask
\* flag (bit 3) clear performs the IRQ entry and no instruction: it sets the
\* mask flag, clears the pending flag, pushes the PC and the flags and loads
\* the PC from the vector at 0x7FFE.
C2_IrqEntry ==
  (last.kind = "step" /\ last.st = "ok" /\ IrqDue(last.pre.f))
    => /\ get_flag(flags, FlagInterruptEnabled)
       /\ ~get_flag(flags, FlagInterruptPending)
       /\ registers[PC] = WordAt(mem, ROM_END - 1)
       /\ registers[SP] # last.pre.r[SP]

\* C3: an IRQ entry followed by RSI leaves the PC, the flags and SP as they
\* were before the entry.
C3_IrqThenRsi ==
  (prev.kind = "step" /\ prev.st = "ok" /\ IrqDue(prev.pre.f) /\ LastStep("RSI"))
    => /\ registers[PC] = prev.pre.r[PC]
       /\ flags = prev.pre.f
       /\ registers[SP] = prev.pre.r[SP]

\* C4: PHR Rs followed by PLR Rd copies Rs into Rd and leaves SP as it was
\* before the PHR.
C4_PushPull ==
  (PrevStep("PHR") /\ LastStep("PLR"))
    => /\ registers[last.dest] = prev.pre.r[prev.dest]
       /\ registers[SP] = prev.pre.r[SP]

\* C5: JSB with an immediate target followed by RSB leaves the PC at the
\* instruction after the JSB (3 bytes on), and SP and the flags as they were
\* before the JSB.
C5_JsbRsb ==
  (PrevStep("JSB") /\ prev.mode = 1 /\ LastStep("RSB"))
    => /\ registers[PC] = Wrap16(prev.pre.r[PC] + 3)
       /\ registers[SP] = prev.pre.r[SP]
       /\ flags = prev.pre.f

\* C5: a subroutine at 3 called from 0 has returned to 3
C5_Witness ==
  /\ PrevStep("JSB") /\ prev.mode = 1 /\ LastStep("RSB")
  /\ last.pre.r[PC] = prev.literal_u16
  /\ last.pre.r[SP] = Wrap16(prev.pre.r[SP] + 2)
  /\ registers[PC] = 3

\* C6: a push or a pull with SP in the stack region 0xE000..=0xEFFF either
\* fails, leaving SP and the memory as they were, or leaves SP in the region.
C6_StackBounds ==
  (last.kind = "step" /\ last.opcode \in {"PHR", "PLR"}
     /\ last.pre.r[SP] \in STACK_BASE..STACK_END)
    => \/ last.st # "ok" /\ registers[SP] = last.pre.r[SP] /\ mem = last.pre.m
       \/ last.st = "ok" /\ registers[SP] \in STACK_BASE..STACK_END

C8_Reset ==
  last.kind = "reset"
    => /\ \A i \in Regs \ {PC, SP} : registers[i] = 0
       /\ flags = FlagInterruptEnabled
       /\ registers[SP] = STACK_END - 1
       /\ registers[PC] = WordAt(mem, ROM_END - 3)

\* C9: run tests Halt after each step: it returns Ok only with Halt set, it
\* takes no step once Halt is set (so it never returns while the program does
\* not halt and no step fails), and once Halt is set it returns.
C9_HaltEndsRun ==
  /\ [](runPc = "returned" => (get_flag(flags, FlagHalt) /\ ~running))
  /\ [][(runPc # "idle" /\ get_flag(flags, FlagHalt)) => steps' = steps]_vars
  /\ ((runPc = "sweep" /\ get_flag(flags, FlagHalt)) ~> (runPc = "returned"))

\* C9: run has returned after more than one step, the last one a HLT
C9_Witness ==
  /\ runPc = "returned"
  /\ steps > 1
  /\ last.kind = "step" /\ last.opcode = "HLT"

\* C10: when run is back at its loop test after a step, every registered
\* device has been polled exactly once since that step, in the order of
\* registration, and the interrupt-pending flag is set if and only if it was
\* set after the step or a device asserted: the flags are otherwise those
\* the step left.
C10_SweepAfterStep ==
  (runPc \in {"loop", "returned"} /\ steps > 0)
    => /\ polled = [k \in 1..Len(bus.devices) |-> k]
       /\ flags = IF asserted # {} THEN set_flag(flagsAfterStep, FlagInterruptPending, TRUE)
                  ELSE flagsAfterStep

\* C10: two devices asserted in the same sweep, and the one flag is set
C10_Witness ==
  /\ runPc = "loop" /\ steps > 0
  /\ Len(bus.devices) = MaxDevices
  /\ asserted = 1..MaxDevices
  /\ polled = << 1, 2 >>
  /\ flags = FlagInterruptPending
  /\ flagsAfterStep = 0

\* C11: a conditional jump with an immediate target whose condition holds
\* leaves the PC at the target; one whose condition does not hold leaves the PC
\* 3 bytes after the jump's address and changes nothing else.
C11_CondJump ==
  (LastStep("JPC") /\ last.mode = 1 /\ last.b = 0)
    => IF JumpTaken(last.pre.f, JumpModeFrom(last.dest))
       THEN registers[PC] = last.literal_u16
       ELSE /\ registers[PC] = Wrap16(last.pre.r[PC] + 3)
            /\ \A i \in Regs \ {PC} : registers[i] = last.pre.r[i]
            /\ flags = last.pre.f
            /\ mem = last.pre.m

\* The 16-bit ALU instructions of C12.
C12_Opcodes == { "ADD", "SUB", "MUL", "DIV", "MOD", "INC", "DEC", "AND", "OR", "XOR" }

\* C12: after a 16-bit ALU instruction Zero is set iff the result (the
\* destination register) is 0, Negative iff bit 15 of the result is 1, and
\* the carry (Flag::Overflow in the code) iff the operation wrapped modulo
\* 2^16; it is clear after DIV, MOD, AND, OR and XOR.
C12_AluFlags ==
  (last.kind = "step" /\ last.st = "ok" /\ last.b = 0 /\ last.opcode \in C12_Opcodes)
    => LET vd == last.pre.r[last.dest]
           vo == IF last.opcode \in {"INC", "DEC"} THEN 1
                 ELSE IF last.mode = 1 THEN last.literal_u16
                 ELSE last.pre.r[last.orig]
           result == registers[last.dest]
           wrapped == CASE last.opcode \in {"ADD", "INC"} -> vd + vo > U16 - 1
                        [] last.opcode \in {"SUB", "DEC"} -> vd < vo
                        [] last.opcode = "MUL" -> vo # 0 /\ vd > (U16 - 1) \div vo
                        [] OTHER -> FALSE
       IN /\ get_flag(flags, FlagZero) <=> (result = 0)
          /\ get_flag(flags, FlagNegative) <=> (result >= 32768)
          /\ get_flag(flags, FlagOverflow) <=> wrapped

\* C12: an ADD wrapped to 0 (Zero and carry set), or a SUB below 0 gave a
\* result with bit 15 set (Negative and carry set)
C12_Witness ==
  /\ last.kind = "step" /\ last.st = "ok" /\ last.b = 0
  /\ \/ /\ last.opcode = "ADD" /\ last.pre.r[0] = 65535
        /\ registers[0] = 0
        /\ flags = FlagZero + FlagOverflow
     \/ /\ last.opcode = "SUB" /\ last.pre.r[0] = 0 /\ last.pre.r[1] = 1
        /\ registers[0] = 65535
        /\ flags = FlagNegative + FlagOverflow

\* C13: a DIV or MOD whose divisor (register or immediate) is zero ends the
\* step with the error DivideByZero, the destination register and the flags
\* being those before the instruction.
C13_DivideByZero ==
  (last.kind = "step" /\ last.opcode \in {"DIV", "MOD"} /\ last.b = 0
     /\ last.mode \in {0, 1}
     /\ 0 = (IF last.mode = 1 THEN last.literal_u16 ELSE last.pre.r[last.orig]))
    => /\ last.st = "DivideByZero"
       /\ registers[last.dest] = last.pre.r[last.dest]
       /\ flags = last.pre.f

\* C14: a write_u16(a, v) of the Memory with a and a + 1 in RAM, followed by
\* read_u16(a), returns v, and the write changes no byte other than those at
\* a and a + 1.
C14_RamRoundTrip ==
  LET a == last.addr
      InRam(x) == x >= RAM_BASE /\ x <= RAM_END
  IN /\ (last.kind = "write_u16" /\ InRam(a) /\ InRam(a + 1))
          => /\ last.ok
             /\ \A x \in (DOMAIN mem \cup DOMAIN last.pre) \ {a, a + 1} :
                  MemGet(mem, x) = MemGet(last.pre, x)
     /\ (last.kind = "read_u16" /\ prev.kind = "write_u16" /\ prev.addr = a
           /\ InRam(a) /\ InRam(a + 1))
          => (last.ok /\ last.v = prev.val)

\* C14: a word written over older RAM contents at the last word of RAM has
\* been read back
C14_Witness ==
  /\ last.kind = "read_u16" /\ prev.kind = "write_u16"
  /\ last.addr = RAM_END - 1 /\ prev.addr = RAM_END - 1
  /\ last.ok /\ last.v = 513
  /\ MemGet(prev.pre, RAM_END - 1) = 255
  /\ MemGet(mem, RAM_END) = 2

\* The regions of the bus in which a word can be written.
InRam(a) == a >= RAM_BASE /\ a <= RAM_END
InStack(a) == a >= STACK_BASE /\ a <= STACK_END
\* Both bytes of the word at a lie in one writable region or in one device.
WordInOneRegion(b, a) ==
  \/ InRam(a) /\ InRam(a + 1)
  \/ InStack(a) /\ InStack(a + 1)
  \/ /\ find_device(b.devices, a) # 0
     /\ a + 1 <= MMIO_END
     /\ find_device(b.devices, a + 1) = find_device(b.devices, a)

\* write_u8(a, low) followed by write_u8(a + 1, high), stopping at an error.
TwoByteWrites(b, a, v, io) ==
  LET w1 == Bus_write_u8(b, a, LowByte(v), io)
      w2 == Bus_write_u8(w1.bus, a + 1, HighByte(v), io)
  IN IF w1.res.tag # "ok" THEN w1 ELSE w2

\* read_u8(a) followed by read_u8(a + 1), combined low byte first.
TwoByteReads(b, a) ==
  LET r1 == Bus_read_u8(b, a)
      r2 == Bus_read_u8(r1.bus, a + 1)
  IN IF r1.res.tag # "ok" THEN r1
     ELSE IF r2.res.tag # "ok" THEN r2
     ELSE [bus |-> r2.bus, res |-> Ok(r1.res.v + 256 * r2.res.v)]

\* C15: on the bus a word access is two byte accesses, low byte first: for
\* every address whose word lies in RAM, in the stack or in one device,
\* write_u16(a, v) leaves the bus and returns what write_u8(a, v low) then
\* write_u8(a + 1, v high) do, and read_u16(a) is
\* read_u8(a) + 256 * read_u8(a + 1).
C15_WordIsTwoBytes ==
  /\ (busLast.kind = "write_u16" /\ WordInOneRegion(busLast.pre, busLast.addr))
       => LET w == TwoByteWrites(busLast.pre, busLast.addr, busLast.val, busLast.io)
          IN busLast.post = w.bus /\ busLast.res = w.res
  /\ (busLast.kind = "read_u16" /\ WordInOneRegion(busLast.pre, busLast.addr))
       => LET r == TwoByteReads(busLast.pre, busLast.addr)
          IN busLast.post = r.bus /\ busLast.res = r.res

\* The word at a has its second byte outside the region, or outside the
\* device, of its first byte.
Straddles(b, a) ==
  \/ a \in { ROM_END, RAM_END, STACK_END, MMIO_END }
  \/ /\ find_device(b.devices, a) # 0
     /\ a + 1 > aabb(b.devices[find_device(b.devices, a)])[2]

\* C16: a word read or write whose second byte lies in another region than
\* its first (at the last byte of ROM, of RAM, of the stack, at 0xFFFF) or
\* beyond the end of the device returns an error and leaves the bus as it
\* was: no value, no partial write, no crash.
C16_StraddleIsError ==
  (busLast.kind \in {"read_u16", "write_u16"} /\ Straddles(busLast.pre, busLast.addr))
    => /\ busLast.res.tag = "err"
       /\ busLast.post.rom = busLast.pre.rom
       /\ busLast.post.ram = busLast.pre.ram
       /\ busLast.post.stack = busLast.pre.stack

\* The address ranges [lo1, hi1] and [lo2, hi2] share an address.
Overlap(r1, r2) == r1[1] <= r2[2] /\ r2[1] <= r1[2]

\* C17: a device whose range overlaps ROM, RAM, the stack or a registered
\* device is not registered: the ranges of the devices on the bus are
\* disjoint from the three regions and from one another, so that every
\* address is served by one region or by at most one device.
C17_NoOverlap ==
  \A i \in 1..Len(bus.devices) :
    /\ ~Overlap(aabb(bus.devices[i]), << ROM_BASE, STACK_END >>)
    /\ \A j \in 1..Len(bus.devices) :
         i # j => ~Overlap(aabb(bus.devices[i]), aabb(bus.devices[j]))

\* The source text has assembled: assemble_string has returned Ok.
Assembled == asm.at \in {"done", "loaded"}
\* The operand types of an instruction once aliases and labels are resolved.
FormOf(st) ==
  [i \in 1..Len(st.ops) |-> resolve_operand_fully(st.ops[i], asm.aliases, asm.labels, 0).t]
\* The mnemonics of the jumps.
Jumps == {"JMP", "JZ", "JNZ", "JN", "JNN", "JC", "JNC"}
\* The opcode the CPU has for a mnemonic: the conditional jumps are one
\* opcode of the CPU.
CpuOpcode(mn) == IF mn \in Jumps \ {"JMP"} THEN "JPC" ELSE mn

\* C18: the CPU, started on the bytes the assembler emitted for an
\* instruction, executes that operation: its step returns, it has decoded the
\* opcode of the mnemonic, a register operand as the destination or source
\* register, a literal operand as the 16-bit literal, and, when the
\* instruction is no jump or call, has advanced the PC by the number of
\* bytes emitted.
C18_AssemblerCpuAgree ==
  (asm.at = "loaded" /\ steps = 1 /\ last.kind = "step"
     /\ asm.src # << >> /\ asm.src[1].k = "Instruction")
    => LET st == asm.src[1]
           form == FormOf(st)
           bytes == generate_instruction(asm.statements[1], asm.aliases, asm.labels).bytes
           op(i) == resolve_operand_fully(st.ops[i], asm.aliases, asm.labels, 0)
       IN /\ last.st = "ok"
          /\ last.opcode = CpuOpcode(st.mn)
          /\ st.mn \notin Jumps \cup {"JSB", "RSB", "RSI"} => registers[PC] = Len(bytes)
          /\ (Len(form) >= 1 /\ form[1] = "Register" /\ st.mn \notin Jumps)
               => last.dest = op(1).r
          /\ (Len(form) = 2 /\ form[2] = "Register") => last.orig = op(2).r
          /\ (Len(form) = 2 /\ form[2] = "Literal") => last.literal_u16 = op(2).v
          /\ (Len(form) = 1 /\ form[1] = "Literal") => last.literal_u16 = op(1).v

\* No statement of the program is the "org" directive.
NoOrg ==
  \A j \in 1..Len(asm.statements) :
    ~(asm.statements[j].k = "Directive" /\ to_lowercase[asm.statements[j].name] = "org")

\* C19: when a program without .org has assembled, the address the first
\* pass ended at is the number of bytes the second pass emitted, and the
\* address the first pass recorded for each label is the cursor the second
\* pass had at that label.
C19_PassesAgree ==
  (Assembled /\ NoOrg)
    => /\ asm.address = asm.current_address
       /\ \A j \in 1..Len(asm.labels) :
            asm.labels[j].v = MapGet(asm.cursors, asm.labels[j].k)

\* The opcode table: the opcode byte of a mnemonic with operands of the
\* types form.
OpcodeTable(mn, form) ==
  LET second(base) == IF form[2] = "Literal" THEN base + 1 ELSE base
      jump(base) == IF form[1] = "Register" THEN base + 1 ELSE base
  IN CASE mn = "NOP" -> 0 [] mn = "HLT" -> 1
       [] mn = "MOV" ->
            (CASE form = << "Register", "Register" >> -> 16
              [] form = << "Register", "Literal" >> -> 17
              [] form = << "Register", "RegisterIndirect" >> -> 18
              [] form = << "Literal", "Register" >> -> 19
              [] form = << "Literal", "Literal" >> -> 20
              [] form = << "RegisterIndirect", "Register" >> -> 21
              [] form = << "RegisterIndirect", "Literal" >> -> 22)
       [] mn = "PHR" -> 23 [] mn = "PLR" -> 24
       [] mn = "ADD" -> second(32) [] mn = "SUB" -> second(34)
       [] mn = "MUL" -> second(36) [] mn = "DIV" -> second(38)
       [] mn = "MOD" -> second(40)
       [] mn = "INC" -> 42 [] mn = "DEC" -> 43
       [] mn = "AND" -> second(48) [] mn = "OR" -> second(50)
       [] mn = "XOR" -> second(52) [] mn = "NOT" -> 54
       [] mn = "CMP" -> second(64)
       [] mn = "JMP" -> jump(80) [] mn = "JZ" -> jump(82) [] mn = "JNZ" -> jump(84)
       [] mn = "JN" -> jump(86) [] mn = "JNN" -> jump(88) [] mn = "JC" -> jump(90)
       [] mn = "JNC" -> jump(92)
       [] mn = "JSB" -> 94 [] mn = "RSB" -> 95 [] mn = "CLI" -> 96
       [] mn = "SEI" -> 97 [] mn = "RSI" -> 98

\* C20: when a program has assembled, the first byte emitted for its last
\* instruction is the opcode byte the table gives for the mnemonic and the
\* operand form of the source, so that no two of them share an opcode byte.
C20_OpcodeOfTable ==
  (Assembled /\ asm.src # << >> /\ asm.src[Len(asm.src)].k = "Instruction")
    => LET st == asm.src[Len(asm.src)]
       IN MemGet(asm.output, asm.stmt_start) = OpcodeTable(st.mn, FormOf(st))

\* The source text defines a label name twice.
DuplicateLabel(src) ==
  \E i, j \in 1..Len(src) :
    i < j /\ src[i].k = "Label" /\ src[j].k = "Label" /\ src[i].name = src[j].name

\* C21: a program that defines a label name twice does not assemble: once
\* the first pass is over the call has failed, with the duplicate-label
\* error when it stopped at a label, and the output holds no byte; in a
\* program that has assembled every label of the source is bound once.
C21_DuplicateLabel ==
  /\ (DuplicateLabel(asm.src) /\ asm.at \notin {"new", "first_pass"})
       => /\ asm.at \in {"error", "panic"}
          /\ asm.statements[asm.i].k = "Label" => asm.err = "Duplicate label definition"
          /\ asm.output = EmptyMem /\ asm.current_address = 0
  /\ Assembled
       => /\ \A i, j \in 1..Len(asm.labels) :
               asm.labels[i].k = asm.labels[j].k => i = j
          /\ \A i \in 1..Len(asm.src) :
               asm.src[i].k = "Label"
                 => \E j \in 1..Len(asm.labels) : asm.labels[j].k = asm.src[i].name

C21_Witness ==
  /\ DuplicateLabel(asm.src)
  /\ asm.at = "error" /\ asm.err = "Duplicate label definition"

\* The number of alias links from the operand a1 to the end of the chain the
\* source declares, and the operand the chain ends in.
Links == Len(asm.src) - 1
ChainEnd == asm.src[Links].ops[1]

\* C22: on every alias table the two resolutions end. A chain of more than
\* MAX_ALIAS_DEPTH links, a cycle or an undeclared alias is an error of the
\* sizing resolution and of the emission resolution, and the program does not
\* assemble; a chain of at most MAX_ALIAS_DEPTH links resolves to the operand
\* it ends in.
C22_AliasDepth ==
  asm.at # "new"
    => LET size == resolve_operand_for_size(Alias("a1"), asm.aliases, 0)
           full == resolve_operand_fully(Alias("a1"), asm.aliases, asm.labels, 0)
       IN IF ChainEnd.t = "Alias" \/ Links > MAX_ALIAS_DEPTH
          THEN /\ size = "Err" /\ full.t = "Err"
               /\ asm.at \in {"first_pass", "error"}
               /\ asm.at = "first_pass" => asm.i <= Len(asm.src)
          ELSE /\ full = ChainEnd
               /\ size = (IF ChainEnd.t = "Register" THEN "RegisterLike" ELSE "LiteralLike")
               /\ (asm.src[Len(asm.src)].mn # "INC" \/ ChainEnd.t = "Register")
                    => asm.at # "error"

\* a jump through a chain of MAX_ALIAS_DEPTH + 1 links to a literal has
\* failed in the first pass
C22_Witness ==
  /\ Links = MAX_ALIAS_DEPTH + 1 /\ ChainEnd.t = "Literal"
  /\ asm.src[Len(asm.src)].mn = "JMP"
  /\ asm.at = "error" /\ asm.err = "get_instruction_size"

\* The source defines the label name.
Defines(src, name) == \E j \in 1..Len(src) : src[j].k = "Label" /\ src[j].name = name
\* Statement st refers to a label the source does not define.
RefersUndefined(src, st) ==
  \E o \in 1..Len(st.ops) : st.ops[o].t = "LabelRef" /\ ~Defines(src, st.ops[o].n)

\* C23: a program in which an instruction or a "word" directive refers to a
\* label that is never defined does not assemble.
C23_UnknownLabel ==
  (\E i \in 1..Len(asm.src) :
      /\ asm.src[i].k = "Instruction"
           \/ (asm.src[i].k = "Directive" /\ to_lowercase[asm.src[i].name] = "word")
      /\ RefersUndefined(asm.src, asm.src[i]))
    => ~Assembled

\* Statement st names a register above R15, directly or indirectly.
NamesHighRegister(st) ==
  \E o \in 1..Len(st.ops) : st.ops[o].t \in {"Register", "RegisterIndirect"} /\ st.ops[o].r > 15

\* C24: a program with a register operand above R15, whatever the mnemonic,
\* does not assemble, so no image holds a register byte above 15.
C24_RegisterRange ==
  (\E i \in 1..Len(asm.src) :
      asm.src[i].k = "Instruction" /\ NamesHighRegister(asm.src[i]))
    => ~Assembled

\* The device before and after the last call of it.
PreDev == busLast.pre.devices[1]
PostDev == busLast.post.devices[1]
\* The state of a device a program can observe through its registers.
DeviceState(d) ==
  [input_buffer |-> d.input_buffer,
   rx_interrupt_enabled |-> d.rx_interrupt_enabled,
   tx_interrupt_enabled |-> d.tx_interrupt_enabled,
   connect_interrupt_enabled |-> d.connect_interrupt_enabled,
   client_stream |-> d.client_stream,
   is_client_connected |-> d.is_client_connected]
\* The device once the messages waiting in its channel are processed.
Drained(d) == IF d.kind = "console" THEN d ELSE process_tcp_messages(d).dev
StatusWritten == busLast.kind = "write_u8" /\ busLast.addr = STATUS_REGISTER_OFFSET

\* C25 as stated: a write to the STATUS register is rejected with an error and
\* leaves RX queue, interrupt-enable bits and connection state as they were
\* before the write.
C25_StatusWriteLeavesState ==
  StatusWritten =>
    /\ busLast.res.tag = "err"
    /\ DeviceState(PostDev) = DeviceState(PreDev)

\* C25 amended: a write to the STATUS register is rejected with
\* WriteNotPermitted and leaves the interrupt-enable bits as they were; RX queue
\* and connection state are those the device has once the messages waiting in
\* its channel are processed, so a console and a serial device with an empty
\* channel are left exactly as they were.
C25_StatusWriteRejected ==
  StatusWritten =>
    /\ busLast.res = Err("WriteNotPermitted", PreDev.base_address + STATUS_REGISTER_OFFSET)
    /\ PostDev.rx_interrupt_enabled = PreDev.rx_interrupt_enabled
    /\ PostDev.tx_interrupt_enabled = PreDev.tx_interrupt_enabled
    /\ PostDev.connect_interrupt_enabled = PreDev.connect_interrupt_enabled
    /\ DeviceState(PostDev) = DeviceState(Drained(PreDev))
    /\ PreDev.channel = << >> => DeviceState(PostDev) = DeviceState(PreDev)

C25_Witness ==
  /\ StatusWritten
  /\ PreDev.kind = "serial" /\ PreDev.rx_interrupt_enabled
  /\ PreDev.channel # << >> /\ PostDev.input_buffer # PreDev.input_buffer
  /\ busLast.res.tag = "err"

\* C26: check_interrupt returns true iff, for the device as the call leaves it,
\* the RX interrupt is enabled and the RX queue is non-empty, or the TX
\* interrupt is enabled and TX_READY is set.
C26_PollIffEnabledCondition ==
  busLast.kind = "check_interrupt" =>
    ((busLast.res.v = 1) <=>
       \/ PostDev.rx_interrupt_enabled /\ PostDev.input_buffer # << >>
       \/ /\ PostDev.tx_interrupt_enabled
          /\ HasBit(get_status_register_value(PostDev), TX_READY_BIT))

DataRead == busLast.kind = "read_u8" /\ busLast.addr = DATA_REGISTER_OFFSET

\* C27: a read of the DATA register returns the oldest byte of the RX queue
\* and removes that byte and no other; with an empty RX queue it returns 0 and
\* the queue stays empty.  The RX queue is the one the read finds: that of the
\* console, and that of the serial device with the bytes of the messages
\* waiting in its channel behind those already queued.
C27_DataReadIsFifo ==
  DataRead =>
    LET q == Drained(PreDev).input_buffer
    IN /\ PreDev.input_buffer # << >> => busLast.res = Ok(Head(PreDev.input_buffer))
       /\ q # << >> => busLast.res = Ok(Head(q)) /\ PostDev.input_buffer = Tail(q)
       /\ q = << >> => busLast.res = Ok(0) /\ PostDev.input_buffer = << >>

C27_Witness ==
  /\ DataRead
  /\ PreDev.input_buffer = << 65, 66 >>
  /\ busLast.res = Ok(65) /\ PostDev.input_buffer = << 66 >>

RECURSIVE ChannelBytes(_)
\* The bytes of the DataReceived messages of a channel, oldest first.
ChannelBytes(ch) ==
  IF ch = << >> THEN << >>
  ELSE (IF Head(ch).type = "DataReceived" THEN Head(ch).data ELSE << >>)
         \o ChannelBytes(Tail(ch))
\* read_u8, write_u8 or check_interrupt was called on a TCP serial device.
SerialCalled == busLast.kind # "none" /\ PreDev.kind = "serial"

\* C28: a call of the TCP serial device leaves no message in the channel, and
\* every byte sent on the channel before the call is in the RX queue the call
\* consults, behind the bytes already queued: STATUS shows RX_READY for it and
\* DATA returns the oldest byte of that queue.
C28_CallsDrainChannel ==
  SerialCalled =>
    LET sent == PreDev.input_buffer \o ChannelBytes(PreDev.channel)
    IN /\ PostDev.channel = << >>
       /\ IF DataRead
          THEN sent # << >> =>
                 busLast.res = Ok(Head(sent)) /\ PostDev.input_buffer = Tail(sent)
          ELSE PostDev.input_buffer = sent
       /\ (busLast.kind = "read_u8" /\ busLast.addr = STATUS_REGISTER_OFFSET) =>
            (HasBit(busLast.res.v, RX_READY_BIT) <=> sent # << >>)

\* C29: a step that fetches a byte that is no defined opcode ends with the
\* error InvalidOpcode and leaves registers, flags and memory as they were.
C29_InvalidOpcode ==
  (last.kind = "step" /\ last.opcode = "NONE")
    => /\ last.st = "InvalidOpcode"
       /\ registers = last.pre.r
       /\ flags = last.pre.f
       /\ mem = last.pre.m

\* The last step completed a MOV into a register (from a register or a literal).
MovToRegister ==
  last.kind = "step" /\ last.st = "ok" /\ last.opcode = "MOV" /\ last.b = 0
    /\ last.mode \in {0, 1}
\* The last step completed a PLR.
Pulled == last.kind = "step" /\ last.st = "ok" /\ last.opcode = "PLR"

\* C30: PC and SP are no registers of the register file: a MOV into a register
\* leaves SP as it was and advances PC by the length of the instruction, and
\* a PLR changes SP only by its pop and advances PC by its length.
C30_PcSpOutsideRegisterFile ==
  /\ MovToRegister =>
       /\ registers[SP] = last.pre.r[SP]
       /\ registers[PC] = (last.pre.r[PC] + (IF last.mode = 1 THEN 4 ELSE 2)) % U16
  /\ Pulled =>
       /\ registers[SP] = (last.pre.r[SP] + U16 - 2) % U16
       /\ registers[PC] = (last.pre.r[PC] + 2) % U16

\* C31: the flags fit in one byte and their reserved bits 0x20 and 0x40 are 0
\* in every state of the CPU, whatever ran before.
C31_ReservedFlagBits ==
  /\ flags < U8
  /\ ~HasBit(flags, 32)
  /\ ~HasBit(flags, 64)

\* The last step completed a JMP through a register (the operand byte is
\* decoded into dest).
JumpedThroughRegister ==
  last.kind = "step" /\ last.st = "ok" /\ last.opcode = "JMP" /\ last.mode = 0

\* C32: JMP Rs sets PC to the value of Rs and changes no other register, no
\* flag and no byte of memory.
C32_JumpRegister ==
  JumpedThroughRegister =>
    /\ registers[PC] = last.pre.r[last.dest]
    /\ \A i \in Regs \ {PC} : registers[i] = last.pre.r[i]
    /\ flags = last.pre.f
    /\ mem = last.pre.m

\* C33: NOT Rd replaces Rd with the word that has each of its 16 bits inverted.
C33_NotIsComplement ==
  (last.kind = "step" /\ last.st = "ok" /\ last.opcode = "NOT")
    => registers[last.dest] = (U16 - 1) - last.pre.r[last.dest]

\* The statement a pass is at is a "byte" directive with a literal operand.
AtByteDirective ==
  /\ asm.at \in {"first_pass", "second_pass"}
  /\ asm.i <= Len(asm.statements)
  /\ asm.statements[asm.i].k = "Directive"
  /\ to_lowercase[asm.statements[asm.i].name] = "byte"
  /\ asm.statements[asm.i].ops[1].t = "Literal"

\* C34: at a "byte" directive with a literal operand the first pass advances
\* its address by 1, and the second pass stores the literal as one byte at its
\* cursor and advances the cursor by 1.
C34_ByteDirective ==
  [][AtByteDirective =>
       IF asm.at = "first_pass"
       THEN asm'.address = asm.address + 1
       ELSE /\ asm'.current_address = asm.current_address + 1
            /\ asm.current_address \in DOMAIN asm'.output
            /\ asm'.output[asm.current_address] = LowByte(asm.statements[asm.i].ops[1].v)]_vars

\* The lexer reported an error for the input.
HasLexError == \E i \in 1..Len(asm.src) : ~asm.src[i].ok
\* The number of mnemonic tokens among the lexer's results.
Mnemonics(input) == Len(SelectSeq(input, LAMBDA x : x.ok /\ x.tk.t \in MnemonicTokens))

\* C35: an input with a character that starts no token, or with a literal
\* above 0xFFFF, does not assemble: the parser returns an error; and the
\* parser builds no more instructions than the input has mnemonic tokens.
C35_LexErrorFails ==
  /\ HasLexError => asm.at \in {"new", "error"}
  /\ asm.at # "new" => Len(asm.statements) <= Mnemonics(asm.src)

\* Line i of the source starts with "name:" and holds a statement after it.
LabelledStatement(i) ==
  /\ Len(asm.src[i]) > 2
  /\ asm.src[i][1].t = "LabelIdentifier" /\ asm.src[i][2].t = "Colon"
\* Some line of the source starts with "name:".
Written(name) ==
  \E i \in 1..Len(asm.src) :
    /\ Len(asm.src[i]) >= 2
    /\ asm.src[i][1] = LabelIdentifier(name) /\ asm.src[i][2] = Colon

\* C36: once the first loop has ended, a label written before the instruction
\* or directive of its line is in the symbol table; and a jump to a label that
\* some line of the source starts with never fails for a missing label.
C36_LabelOnStatementLine ==
  /\ asm.at \in {"second_pass", "done"} =>
       \A i \in 1..Len(asm.src) :
         LabelledStatement(i) => MapHas(asm.labels, asm.src[i][1].n)
  /\ (asm.at = "error" /\ asm.err = "MissingLabel") =>
       ~Written(parse_line(asm.src[asm.i]).target.n)

(***************************************************************************)
(* C37: once the device side of the channel is dropped the TCP thread      *)
(* terminates: after a send of the thread has failed, the thread calls     *)
(* stream.read no more and does not go back to listener.incoming() to wait *)
(* for another connection.                                                 *)
(***************************************************************************)
C37_ThreadEndsAfterFailedSend ==
  listener.failed => listener.reads = 0 /\ listener.waits = 0

\* A message of the channel that tells a connect or a disconnect.
StatusEvent(msg) == msg.type \in { "ClientConnected", "ClientDisconnected" }
\* The last call was a read_u8 or a write_u8 of a TCP serial device whose
\* connect interrupt is enabled, and it received a connect or disconnect event.
EventReceivedByAccess ==
  /\ busLast.kind \in { "read_u8", "write_u8" }
  /\ PreDev.kind = "serial"
  /\ PreDev.connect_interrupt_enabled /\ PostDev.connect_interrupt_enabled
  /\ \E i \in 1..Len(PreDev.channel) : StatusEvent(PreDev.channel[i])
\* Some check_interrupt among the next MaxDevOps of a device returns true when
\* nothing more arrives.
SomeLaterPollAsserts(dev) ==
  \E k \in 1..MaxDevOps : check_interrupt(Polled(dev, k - 1)).irq

(***************************************************************************)
(* C38: with the connect interrupt enabled, a connect or disconnect event  *)
(* makes a later check_interrupt return true also when the event arrives   *)
(* before a read_u8 or write_u8 of the CPU: the check_interrupt that       *)
(* follows such a call returns true, or one of the calls after it does     *)
(* although nothing more arrives.                                          *)
(***************************************************************************)
C38_ConnectEventInterrupts ==
  [][ (/\ EventReceivedByAccess
       /\ busOps' = busOps + 1
       /\ busLast'.kind = "check_interrupt")
        => \/ busLast'.res = Ok(1)
           \/ SomeLaterPollAsserts(bus'.devices[1]) ]_vars

\* The capacity of the RX queue of a device.
RxCapacity(d) ==
  IF d.kind = "console" THEN CONSOLE_RX_CAPACITY ELSE SERIAL_RX_CAPACITY
\* The bytes the producer delivers to the device during the last call: the
\* bytes waiting in the channel of a serial device, the simulated character
\* of a console in a check_interrupt.
Delivered ==
  IF PreDev.kind = "serial" THEN ChannelBytes(PreDev.channel)
  ELSE IF busLast.kind = "check_interrupt" THEN << CONSOLE_SIMULATED_CHAR >>
  ELSE << >>
\* The RX queue after the last call, behind the byte the call read from DATA.
ReadThenQueued ==
  IF DataRead /\ busLast.res.tag = "ok" /\ (PreDev.input_buffer \o Delivered) # << >>
  THEN << busLast.res.v >> \o PostDev.input_buffer
  ELSE PostDev.input_buffer

RECURSIVE GreedyMatch(_, _, _, _, _)
\* Match a[lo..hi], in order, each with the first equal element of b at or
\* after index j that is still unused: the index behind the last match, or 0
\* when an element of a finds none.  a[lo..hi] is a subsequence of b from j on
\* iff the result is not 0.
GreedyMatch(a, lo, hi, b, j) ==
  IF j = 0 THEN 0
  ELSE IF lo > hi THEN j
  ELSE IF lo = hi
       THEN IF \E k \in j..Len(b) : b[k] = a[lo]
            THEN 1 + CHOOSE k \in j..Len(b) :
                       b[k] = a[lo] /\ \A m \in j..(k - 1) : b[m] # a[lo]
            ELSE 0
  ELSE LET mid == (lo + hi) \div 2
       IN GreedyMatch(a, mid + 1, hi, b, GreedyMatch(a, lo, mid, b, j))

\* a from its element i on is, in order, a subsequence of b
SubsequenceFrom(a, i, b) == GreedyMatch(a, i, Len(a), b, 1) # 0

(***************************************************************************)
(* C39: the RX queue of a device never holds more than 256 bytes (TCP      *)
(* serial) or 4 bytes (console), and no call reorders or duplicates bytes: *)
(* the byte a call reads from DATA followed by the queue the call leaves   *)
(* is the queue before the call followed by, in order, a subsequence of    *)
(* the bytes delivered meanwhile.                                          *)
(***************************************************************************)
C39_RxQueueBoundedInOrder ==
  /\ bus.devices # << >> =>
       Len(bus.devices[1].input_buffer) <= RxCapacity(bus.devices[1])
  /\ busLast.kind # "none" =>
       LET before == PreDev.input_buffer
           after == ReadThenQueued
       IN /\ Len(after) >= Len(before)
          /\ SubSeq(after, 1, Len(before)) = before
          /\ SubsequenceFrom(after, Len(before) + 1, Delivered)

C39_Witness ==
  /\ DataRead /\ PreDev.kind = "serial"
  /\ Len(Delivered) > SERIAL_RX_CAPACITY
  /\ busLast.res = Ok(65)
  /\ Len(PostDev.input_buffer) = SERIAL_RX_CAPACITY - 1
  /\ PostDev.input_buffer[1] = 66 /\ PostDev.input_buffer[2] = 67

(***************************************************************************)
(* C40: the assembler never writes outside its output of 32 KiB: it does   *)
(* not crash on a write past the end, and a program whose .org or whose    *)
(* emitted bytes move the cursor to 0x8000 or beyond does not assemble.    *)
(***************************************************************************)
C40_OutputWithinImage ==
  /\ asm.at # "panic"
  /\ asm.at = "done" => asm.current_address < OUTPUT_SIZE

=============================================================================
